---- MODULE Spec2Model ----
(***************************************************************************)
(* Model of the optics engine of the sunlight repository                   *)
(* (packages/optics-core): thin-lens ABCD matrices, the single-lens spot   *)
(* model, the spot/receiver overlap, the power engine, the angle sweep and *)
(* the validation rules.                                                   *)
(*                                                                         *)
(* Numbers.  The engine computes with IEEE doubles.  The model computes    *)
(* with exact rationals <<n, d>> (d > 0, lowest terms), extended with the  *)
(* three special doubles: <<1, 0>> is +Infinity, <<-1, 0>> is -Infinity    *)
(* and <<0, 0>> is NaN, so that a division by zero produces what the       *)
(* engine produces.  Signed zero is not represented, and a result is       *)
(* rounded (to a 10-bit mantissa) only where it is irrational or does not  *)
(* fit the model's integers.                                               *)
(* Math.PI is the rational 22/7; Math.cos is Bhaskara's rational           *)
(* approximation (pi^2 - 4x^2)/(pi^2 + x^2) on [-pi/2, pi/2], extended by  *)
(* symmetry; Math.sin, Math.tan and Math.acos are derived from it, and     *)
(* Math.sqrt is exact on squares and rounded to 8 significant bits        *)
(* otherwise.  With it cos(0) = 1, cos(60 deg) = 1/2 and cos(90 deg) = 0   *)
(* (the engine's double is 6.1e-17).                                       *)
(***************************************************************************)
EXTENDS Integers, Sequences, FiniteSets, TLC

VARIABLES
  system,       \* the OpticalSystem passed to the engine: [lenses, pv]
  lightSource,  \* the LightSource: [intensity, zenithAngle]
  call,         \* the engine function called ("none" before the call)
  lensIndex,    \* the lens validateLens was called on (0: not called)
  rayTrace,     \* <<r>>: the RayTraceResult returned; <<>> before
  power,        \* <<r>>: the PowerCalculationResult returned; <<>> before
  errors,       \* <<e>>: the list a validate function returned; <<>> before
  sweep,        \* sweepAngle's frame: arguments, loop variable, results, pc
  matrix,       \* <<m>>: the ABCDMatrix buildSystemMatrix returned; <<>> before
  lensIdCounter, \* the counter of generateLensId of the useOpticalSystem hook
  localStorage  \* <<s>>: the StoredState saved by the hook; <<>> when none

vars ==
  <<system, lightSource, call, lensIndex, rayTrace, power, errors, sweep, matrix,
    lensIdCounter, localStorage>>

---------------------------------------------------------------------------
(* Rational arithmetic with the special doubles *)

IAbs(x) == IF x < 0 THEN -x ELSE x

ISgn(x) == IF x < 0 THEN -1 ELSE IF x > 0 THEN 1 ELSE 0

IMax(a, b) == IF a < b THEN b ELSE a

IMin(a, b) == IF a < b THEN a ELSE b

RECURSIVE Gcd(_, _)
Gcd(a, b) == IF b = 0 THEN a ELSE Gcd(b, a % b)

\* n/d divided through by g
Reduced(n, d, g) == <<n \div g, d \div g>>

\* n/d (d > 0) in lowest terms
Num(n, d) == Reduced(n, d, Gcd(IAbs(n), d))

I2R(i) == <<i, 1>>

NaN == <<0, 0>>
PosInf == <<1, 0>>
Zero == <<0, 1>>
One == <<1, 1>>

IsNaN(x) == x = NaN
IsFinite(x) == x[2] # 0

RNeg(x) == <<-x[1], x[2]>>

\* c, negated if neg
Negated(c, neg) == IF neg THEN RNeg(c) ELSE c

RECURSIVE Pow2(_)
Pow2(k) == IF k = 0 THEN 1 ELSE 2 * Pow2(k - 1)

\* n/d (n, d >= 1) as <<m, e>>: m * 2^e with a 10-bit mantissa m, rounded down
RECURSIVE FNorm(_, _, _)
FNorm(n, d, e) ==
  LET q == n \div d
  IN IF q >= 1024 THEN FNorm(n \div 2, d, e + 1)
     ELSE IF q >= 512 THEN <<q, e>>
     ELSE IF n < 536870912 THEN FNorm(2 * n, d, e - 1)
     ELSE FNorm(n, d \div 2, e - 1)

\* <<m, e>> with the sign s
Signed(s, me) == <<s * me[1], me[2]>>

\* m * 2^e (m a signed 10-bit mantissa) as a number: Infinity above the
\* model's range, and with the mantissa shortened (as a subnormal double's
\* is) below it
FromMantissa(me) ==
  IF me[2] > 21 THEN <<ISgn(me[1]), 0>>
  ELSE Num(ISgn(me[1])
             * (IAbs(me[1]) \div Pow2(IMin(11, IMax(0, -me[2] - 30))))
             * Pow2(IMax(0, me[2])),
           Pow2(IMin(30, IMax(0, -me[2]))))

\* a finite nonzero number as <<m, e>>, m signed
Mantissa(x) == Signed(ISgn(x[1]), FNorm(IAbs(x[1]), x[2], 0))

\* <<m, e>> with any m, renormalised to a 10-bit mantissa
Renorm(me) ==
  IF me[1] = 0 THEN Zero
  ELSE FromMantissa(Signed(ISgn(me[1]), FNorm(IAbs(me[1]), 1, me[2])))

\* the rounding of a double operation, at the model's precision.  The model
\* rounds where the engine's result is irrational (Math.sqrt, Math.acos and
\* the two-segment overlap formula built on them) and where the exact
\* result of a product or a sum does not fit the model's integers
RRound(x) ==
  IF x[2] = 0 \/ x[1] = 0 THEN x ELSE FromMantissa(Mantissa(x))

\* the rounded product of a = Mantissa(x) and b = Mantissa(y)
MulRounded(a, b) == Renorm(<<a[1] * b[1], a[2] + b[2]>>)

\* a + b as <<m, e>>, the smaller operand dropped when it is below the
\* other's last bit
AlignedSum(a, b) ==
  IF a[2] - b[2] > 20 THEN a
  ELSE IF b[2] - a[2] > 20 THEN b
  ELSE IF a[2] >= b[2] THEN <<a[1] * Pow2(a[2] - b[2]) + b[1], b[2]>>
  ELSE <<a[1] + b[1] * Pow2(b[2] - a[2]), a[2]>>

\* the rounded sum of a = Mantissa(x) and b = Mantissa(y)
AddRounded(a, b) == Renorm(AlignedSum(a, b))

\* a * b fits the model's integers (a, b >= 0)
Fits(a, b) == a = 0 \/ b <= 2147483647 \div a

\* the product of two finite nonzero numbers, g1 = gcd(|x1|, y2) and
\* g2 = gcd(|y1|, x2): exact where the factors fit
MulCross(x, y, g1, g2) ==
  IF /\ Fits(IAbs(x[1]) \div g1, IAbs(y[1]) \div g2)
     /\ Fits(x[2] \div g2, y[2] \div g1)
  THEN <<(x[1] \div g1) * (y[1] \div g2), (x[2] \div g2) * (y[2] \div g1)>>
  ELSE MulRounded(Mantissa(x), Mantissa(y))

\* x * y
RMul(x, y) ==
  IF x[2] = 0 \/ y[2] = 0 THEN <<ISgn(x[1]) * ISgn(y[1]), 0>>
  ELSE IF x[1] = 0 \/ y[1] = 0 THEN Zero
  ELSE MulCross(x, y, Gcd(IAbs(x[1]), y[2]), Gcd(IAbs(y[1]), x[2]))

\* 1 / x
RInv(x) ==
  IF x[1] > 0 THEN <<x[2], x[1]>>
  ELSE IF x[1] < 0 THEN <<-x[2], -x[1]>>
  ELSE <<x[2], 0>>

\* x / y
RDiv(x, y) == RMul(x, RInv(y))

\* the sum of two finite nonzero numbers, g = gcd(x2, y2): exact where the
\* terms fit
AddCross(x, y, g) ==
  IF /\ x[2] \div g <= 1073741823 \div y[2]
     /\ IAbs(x[1]) <= 1073741823 \div (y[2] \div g)
     /\ IAbs(y[1]) <= 1073741823 \div (x[2] \div g)
  THEN Num(x[1] * (y[2] \div g) + y[1] * (x[2] \div g), (x[2] \div g) * y[2])
  ELSE AddRounded(Mantissa(x), Mantissa(y))

\* x + y
RAdd(x, y) ==
  IF IsNaN(x) \/ IsNaN(y) THEN NaN
  ELSE IF x[2] = 0 /\ y[2] = 0 THEN (IF x[1] = y[1] THEN x ELSE NaN)
  ELSE IF x[2] = 0 THEN x
  ELSE IF y[2] = 0 THEN y
  ELSE IF x[1] = 0 THEN y
  ELSE IF y[1] = 0 THEN x
  ELSE AddCross(x, y, Gcd(x[2], y[2]))

RSub(x, y) == RAdd(x, RNeg(y))

\* -1, 0 or 1 as a/b is below, equal to or above c/d (a, c >= 0; b, d > 0),
\* by continued-fraction expansion, so that no product is formed
RECURSIVE CmpPos(_, _, _, _)
CmpPos(a, b, c, d) ==
  LET qa == a \div b
      qc == c \div d
      ra == a % b
      rc == c % d
  IN IF qa # qc THEN (IF qa < qc THEN -1 ELSE 1)
     ELSE IF ra = 0 /\ rc = 0 THEN 0
     ELSE IF ra = 0 THEN -1
     ELSE IF rc = 0 THEN 1
     ELSE CmpPos(d, rc, b, ra)

\* the order of two numbers neither of which is NaN
RCmp(x, y) ==
  IF x[2] = 0 \/ y[2] = 0
  THEN ISgn((IF x[2] = 0 THEN x[1] ELSE 0) - (IF y[2] = 0 THEN y[1] ELSE 0))
  ELSE IF ISgn(x[1]) # ISgn(y[1]) THEN ISgn(ISgn(x[1]) - ISgn(y[1]))
  ELSE IF x[1] >= 0 THEN CmpPos(x[1], x[2], y[1], y[2])
  ELSE CmpPos(-y[1], y[2], -x[1], x[2])

\* x < y, x <= y, x === y as the engine's comparisons: false when either is NaN
RLt(x, y) == ~IsNaN(x) /\ ~IsNaN(y) /\ RCmp(x, y) < 0

RLe(x, y) == ~IsNaN(x) /\ ~IsNaN(y) /\ RCmp(x, y) <= 0

REq(x, y) == ~IsNaN(x) /\ ~IsNaN(y) /\ x = y

RGt(x, y) == RLt(y, x)
RGe(x, y) == RLe(y, x)

\* Math.max, Math.min, Math.abs
RMax(x, y) == IF IsNaN(x) \/ IsNaN(y) THEN NaN ELSE IF RCmp(x, y) < 0 THEN y ELSE x
RMin(x, y) == IF IsNaN(x) \/ IsNaN(y) THEN NaN ELSE IF RCmp(y, x) < 0 THEN y ELSE x
RAbs(x) == <<IAbs(x[1]), x[2]>>

RSq(x) == RMul(x, x)

\* floor of a finite rational
RFloor(x) == x[1] \div x[2]

RECURSIVE ISqrtIn(_, _, _)
ISqrtIn(n, lo, hi) ==
  IF lo >= hi THEN lo
  ELSE LET mid == (lo + hi + 1) \div 2
       IN IF mid * mid <= n THEN ISqrtIn(n, mid, hi) ELSE ISqrtIn(n, lo, mid - 1)

\* integer square root, rounded down
ISqrt(n) == ISqrtIn(n, 0, IMin(n, 46340))

\* the square root of an integer n >= 1 to 8 significant bits or more:
\* isqrt(n * 4^j) / 2^j with n * 4^j >= 2^14
RECURSIVE SqrtIntScaled(_, _)
SqrtIntScaled(n, scale) ==
  IF n >= 16384 THEN Num(ISqrt(n), scale) ELSE SqrtIntScaled(4 * n, 2 * scale)

SqrtInt(n) == SqrtIntScaled(n, 1)

\* the square root of a finite x > 0, sn = isqrt(x1) and sd = isqrt(x2):
\* exact on a ratio of squares, else rounded to 8 significant bits
SqrtParts(x, sn, sd) ==
  IF sn * sn = x[1] /\ sd * sd = x[2] THEN <<sn, sd>>
  ELSE RRound(RDiv(SqrtInt(x[1]), SqrtInt(x[2])))

\* Math.sqrt
RSqrt(x) ==
  IF IsNaN(x) \/ x[1] < 0 THEN NaN
  ELSE IF x[2] = 0 THEN PosInf
  ELSE IF x[1] = 0 THEN Zero
  ELSE SqrtParts(x, ISqrt(x[1]), ISqrt(x[2]))

---------------------------------------------------------------------------
(* Math.PI and the trigonometric functions *)

PI == <<22, 7>>
HalfPI == <<11, 7>>
TwoPI == <<44, 7>>
PISq == <<484, 49>>

\* Bhaskara's approximation of the cosine of x in [-pi/2, pi/2], x2 = x * x
CosOfSquare(x2) == RDiv(RSub(PISq, RMul(I2R(4), x2)), RAdd(PISq, x2))

CosCore(x) == CosOfSquare(RSq(x))

\* the cosine of r in [0, pi]; near: r <= pi/2
CosFolded(r, near) == Negated(CosCore(IF near THEN r ELSE RSub(PI, r)), ~near)

\* the cosine of r in [0, pi]
CosReduced(r) == CosFolded(r, RLe(r, HalfPI))

\* Math.cos
Cos(x) ==
  IF ~IsFinite(x) THEN NaN
  ELSE CosReduced(RAbs(RSub(x,
         RMul(I2R(RFloor(RAdd(RDiv(x, TwoPI), <<1, 2>>))), TwoPI))))

\* Math.sin
Sin(x) == Cos(RSub(HalfPI, x))

\* Math.tan
Tan(x) == RDiv(Sin(x), Cos(x))

\* the inverse of CosCore on a in [0, 1]
AcosCore(a) == RMul(PI, RSqrt(RDiv(RSub(One, a), RAdd(I2R(4), a))))

\* the arc cosine of y, c the arc cosine of |y|
AcosFolded(y, c) == IF y[1] < 0 THEN RSub(PI, c) ELSE c

\* Math.acos: NaN outside [-1, 1]
Acos(y) ==
  IF IsNaN(y) \/ RLt(One, RAbs(y)) THEN NaN
  ELSE RRound(AcosFolded(y, AcosCore(RAbs(y))))

degToRad(degrees) == RDiv(RMul(degrees, PI), I2R(180))

radToDeg(radians) == RDiv(RMul(radians, I2R(180)), PI)

---------------------------------------------------------------------------
(* ABCD matrices: <<<<A, B>>, <<C, D>>>> *)

Identity == <<<<One, Zero>>, <<Zero, One>>>>

createLensMatrix(focalLength) ==
  <<<<One, Zero>>, <<RDiv(I2R(-1), focalLength), One>>>>

createPropagationMatrix(distance) == <<<<One, distance>>, <<Zero, One>>>>

\* multiplyMatrices with m2[1][0] for m2[1][1] in the entry B
multiplyMatricesMixedIndex(m1, m2) ==
  LET a == RAdd(RMul(m1[1][1], m2[1][1]), RMul(m1[1][2], m2[2][1]))
      b == RAdd(RMul(m1[1][1], m2[1][2]), RMul(m1[1][2], m2[2][1]))
      c == RAdd(RMul(m1[2][1], m2[1][1]), RMul(m1[2][2], m2[2][1]))
      d == RAdd(RMul(m1[2][1], m2[1][2]), RMul(m1[2][2], m2[2][2]))
  IN <<<<a, b>>, <<c, d>>>>

multiplyMatrices(m1, m2) ==
  LET a == RAdd(RMul(m1[1][1], m2[1][1]), RMul(m1[1][2], m2[2][1]))
      b == RAdd(RMul(m1[1][1], m2[1][2]), RMul(m1[1][2], m2[2][2]))
      c == RAdd(RMul(m1[2][1], m2[1][1]), RMul(m1[2][2], m2[2][1]))
      d == RAdd(RMul(m1[2][1], m2[1][2]), RMul(m1[2][2], m2[2][2]))
  IN <<<<a, b>>, <<c, d>>>>

\* insert lens into a list sorted by position, after the lenses that do not
\* compare greater (Array.prototype.sort is stable)
RECURSIVE InsertByPosition(_, _)
InsertByPosition(sorted, lens) ==
  IF sorted = <<>> THEN <<lens>>
  ELSE IF RLt(lens.position, Head(sorted).position)
       THEN <<lens>> \o sorted
       ELSE <<Head(sorted)>> \o InsertByPosition(Tail(sorted), lens)

RECURSIVE SortFrom(_, _)
SortFrom(lenses, sorted) ==
  IF lenses = <<>> THEN sorted
  ELSE SortFrom(Tail(lenses), InsertByPosition(sorted, Head(lenses)))

\* the lenses taken in the order of the list, not sorted
unsortedLenses(lenses) == lenses

\* [...lenses].sort((a, b) => a.position - b.position)
sortedByPosition(lenses) == SortFrom(lenses, <<>>)

\* the loop of buildSystemMatrix over sortedLenses[i..]
RECURSIVE MatrixLoop(_, _, _, _)
MatrixLoop(sortedLenses, i, systemMatrix, currentPosition) ==
  IF i > Len(sortedLenses) THEN systemMatrix
  ELSE MatrixLoop(sortedLenses, i + 1,
         multiplyMatrices(
           createLensMatrix(sortedLenses[i].focalLength),
           IF RGt(sortedLenses[i].position, currentPosition)
           THEN multiplyMatrices(
                  createPropagationMatrix(
                    RSub(sortedLenses[i].position, currentPosition)),
                  systemMatrix)
           ELSE systemMatrix),
         sortedLenses[i].position)

\* PropagateToPV without the check pvPosition > lastLens.position
PropagateToPVUnguarded(systemMatrix, lastLens, pvPosition) ==
  multiplyMatrices(
    createPropagationMatrix(RSub(pvPosition, lastLens.position)),
    systemMatrix)

\* the end of buildSystemMatrix: the propagation from the last lens to the PV
PropagateToPV(systemMatrix, lastLens, pvPosition) ==
  IF RGt(pvPosition, lastLens.position)
  THEN multiplyMatrices(
         createPropagationMatrix(RSub(pvPosition, lastLens.position)),
         systemMatrix)
  ELSE systemMatrix

\* buildSystemMatrix from the sorted lenses on
MatrixOfSorted(sortedLenses, pvPosition) ==
  PropagateToPV(MatrixLoop(sortedLenses, 1, Identity, Zero),
                sortedLenses[Len(sortedLenses)], pvPosition)

buildSystemMatrix(lenses, pvPosition) ==
  IF Len(lenses) = 0 THEN Identity
  ELSE MatrixOfSorted(sortedByPosition(lenses), pvPosition)

\* the distances buildSystemMatrix calls createPropagationMatrix with, in
\* the loop over sortedLenses[i..] and then for the PV
RECURSIVE PropagationDistances(_, _, _, _)
PropagationDistances(sortedLenses, i, currentPosition, pvPosition) ==
  IF i > Len(sortedLenses)
  THEN IF RGt(pvPosition, currentPosition)
       THEN <<RSub(pvPosition, currentPosition)>> ELSE <<>>
  ELSE (IF RGt(sortedLenses[i].position, currentPosition)
        THEN <<RSub(sortedLenses[i].position, currentPosition)>> ELSE <<>>)
       \o PropagationDistances(sortedLenses, i + 1, sortedLenses[i].position,
                               pvPosition)

\* the caller's lens list sorted in place
lensesSortedInPlace(lenses) == sortedByPosition(lenses)

\* the caller's lens list after buildSystemMatrix: the sort is made on the
\* copy [...lenses]
lensesAfterBuild(lenses) == lenses

calculateOutputAngle(systemMatrix, inputAngleRad, inputPosition) ==
  RAdd(RMul(systemMatrix[2][1], inputPosition), RMul(systemMatrix[2][2], inputAngleRad))

---------------------------------------------------------------------------
(* Spot model *)

calculateEffectiveAperture(aperture, zenithAngle) ==
  RMul(aperture, Cos(degToRad(zenithAngle)))

calculatePVArea(pv) ==
  IF pv.shape = "circular"
  THEN RMul(PI, RSq(RDiv(pv.diameter, I2R(2))))
  ELSE RMul(pv.width, pv.height)

\* SpotDiameterAt without the case of a receiver that is not behind the lens
SpotDiameterAtAnyDistance(lens, effectiveAperture, distanceFromLensToPV) ==
  IF REq(distanceFromLensToPV, lens.focalLength) THEN Zero
  ELSE RMul(effectiveAperture,
            RDiv(RAbs(RSub(distanceFromLensToPV, lens.focalLength)),
                 lens.focalLength))

\* the branches of calculateSpotDiameterSingleLens
SpotDiameterAt(lens, effectiveAperture, distanceFromLensToPV) ==
  IF RLe(distanceFromLensToPV, Zero) THEN effectiveAperture
  ELSE IF REq(distanceFromLensToPV, lens.focalLength) THEN Zero
  ELSE RMul(effectiveAperture,
            RDiv(RAbs(RSub(distanceFromLensToPV, lens.focalLength)),
                 lens.focalLength))

calculateSpotDiameterSingleLens(lens, pvPosition, zenithAngle) ==
  SpotDiameterAt(lens, calculateEffectiveAperture(lens.aperture, zenithAngle),
                 RSub(pvPosition, lens.position))

\* the minimum spot diameter, 0.001
MinSpotDiameter == <<1, 1000>>

\* the rectangle correction factor, 0.785
RectFactor == <<157, 200>>

\* CircleOverlap with the area of the larger circle for an enclosed circle
CircleOverlapLargerCircle(r1, r2, d) ==
  LET part1 == RRound(RMul(RRound(RSq(r1)),
                 Acos(RDiv(RSub(RAdd(RSq(d), RSq(r1)), RSq(r2)),
                           RMul(RMul(I2R(2), d), r1)))))
      part2 == RRound(RMul(RRound(RSq(r2)),
                 Acos(RDiv(RSub(RAdd(RSq(d), RSq(r2)), RSq(r1)),
                           RMul(RMul(I2R(2), d), r2)))))
      part3 == RMul(<<1, 2>>,
                 RSqrt(RMul(RRound(RMul(RAdd(RNeg(d), RAdd(r1, r2)),
                                        RSub(RAdd(d, r1), r2))),
                            RRound(RMul(RAdd(RSub(d, r1), r2),
                                        RAdd(d, RAdd(r1, r2)))))))
  IN IF RGe(d, RAdd(r1, r2)) THEN Zero
     ELSE IF RLe(d, RAbs(RSub(r1, r2)))
     THEN RMul(RMul(PI, RMax(r1, r2)), RMax(r1, r2))
     ELSE RRound(RSub(RAdd(part1, part2), part3))

\* the circular branch of calculateOverlapArea: the overlap of the spot
\* (radius r1) and the receiver (radius r2), their centres d apart
CircleOverlap(r1, r2, d) ==
  LET part1 == RRound(RMul(RRound(RSq(r1)),
                 Acos(RDiv(RSub(RAdd(RSq(d), RSq(r1)), RSq(r2)),
                           RMul(RMul(I2R(2), d), r1)))))
      part2 == RRound(RMul(RRound(RSq(r2)),
                 Acos(RDiv(RSub(RAdd(RSq(d), RSq(r2)), RSq(r1)),
                           RMul(RMul(I2R(2), d), r2)))))
      part3 == RMul(<<1, 2>>,
                 RSqrt(RMul(RRound(RMul(RAdd(RNeg(d), RAdd(r1, r2)),
                                        RSub(RAdd(d, r1), r2))),
                            RRound(RMul(RAdd(RSub(d, r1), r2),
                                        RAdd(d, RAdd(r1, r2)))))))
  IN IF RGe(d, RAdd(r1, r2)) THEN Zero
     ELSE IF RLe(d, RAbs(RSub(r1, r2)))
     THEN RMul(RMul(PI, RMin(r1, r2)), RMin(r1, r2))
     ELSE RRound(RSub(RAdd(part1, part2), part3))

\* RectOverlap with the factor 0.785 also near the spot centre
RectOverlapAlwaysCorrected(spotCenterY, spotCenterZ, spotRadius, left, right, bottom, top) ==
  IF RGe(left, right) \/ RGe(bottom, top) THEN Zero
  ELSE RMin(RMul(RMul(RSub(right, left), RSub(top, bottom)), RectFactor),
            RMul(RMul(PI, spotRadius), spotRadius))

\* RectOverlap without the factor 0.785
RectOverlapUncorrected(spotCenterY, spotCenterZ, spotRadius, left, right, bottom, top) ==
  IF RGe(left, right) \/ RGe(bottom, top) THEN Zero
  ELSE RMin(RMul(RSub(right, left), RSub(top, bottom)),
            RMul(RMul(PI, spotRadius), spotRadius))

\* the rectangular branch of calculateOverlapArea, from the clipped box on
RectOverlap(spotCenterY, spotCenterZ, spotRadius, left, right, bottom, top) ==
  LET rectOverlap == RMul(RSub(right, left), RSub(top, bottom))
      spotArea == RMul(RMul(PI, spotRadius), spotRadius)
      overlapCenterY == RDiv(RAdd(bottom, top), I2R(2))
      overlapCenterZ == RDiv(RAdd(left, right), I2R(2))
      distFromSpotCenter ==
        RSqrt(RAdd(RSq(RSub(overlapCenterY, spotCenterY)),
                   RSq(RSub(overlapCenterZ, spotCenterZ))))
  IN IF RGe(left, right) \/ RGe(bottom, top) THEN Zero
     ELSE IF RLt(distFromSpotCenter, RMul(spotRadius, <<1, 2>>))
     THEN RMin(rectOverlap, spotArea)
     ELSE RMin(RMul(rectOverlap, RectFactor), spotArea)

\* calculateOverlapArea with the box of the spot not clipped to the receiver
calculateOverlapAreaUnclipped(pv, spotCenterY, spotCenterZ, spotRadius) ==
  IF pv.shape = "circular"
  THEN CircleOverlap(spotRadius, RDiv(pv.diameter, I2R(2)),
                     RSqrt(RAdd(RSq(spotCenterY), RSq(spotCenterZ))))
  ELSE RectOverlap(spotCenterY, spotCenterZ, spotRadius,
         RSub(spotCenterZ, spotRadius), RAdd(spotCenterZ, spotRadius),
         RSub(spotCenterY, spotRadius), RAdd(spotCenterY, spotRadius))

calculateOverlapArea(pv, spotCenterY, spotCenterZ, spotRadius) ==
  IF pv.shape = "circular"
  THEN CircleOverlap(spotRadius, RDiv(pv.diameter, I2R(2)),
                     RSqrt(RAdd(RSq(spotCenterY), RSq(spotCenterZ))))
  ELSE RectOverlap(spotCenterY, spotCenterZ, spotRadius,
         RMax(RNeg(RDiv(pv.width, I2R(2))), RSub(spotCenterZ, spotRadius)),
         RMin(RDiv(pv.width, I2R(2)), RAdd(spotCenterZ, spotRadius)),
         RMax(RNeg(RDiv(pv.height, I2R(2))), RSub(spotCenterY, spotRadius)),
         RMin(RDiv(pv.height, I2R(2)), RAdd(spotCenterY, spotRadius)))

\* InvalidRayTrace with isValid: true
InvalidRayTraceMarkedValid(zenithAngle) ==
  [spotDiameter |-> Zero, spotArea |-> Zero, spotCenterY |-> Zero,
   spotCenterZ |-> Zero, effectiveArea |-> Zero, concentrationRatio |-> Zero,
   isValid |-> TRUE, outputAngle |-> zenithAngle, totalTransmittance |-> Zero]

InvalidRayTrace(zenithAngle) ==
  [spotDiameter |-> Zero, spotArea |-> Zero, spotCenterY |-> Zero,
   spotCenterZ |-> Zero, effectiveArea |-> Zero, concentrationRatio |-> Zero,
   isValid |-> FALSE, outputAngle |-> zenithAngle, totalTransmittance |-> Zero]

\* SpotResult with the concentration ratio taken on the projected aperture,
\* aperture * cos(outputAngleRad), for lens.aperture
SpotResultProjectedAperture(lens, pv, spotDiameter, spotCenterY, outputAngleRad) ==
  LET spotCenterZ == Zero
      spotArea == RMul(PI, RSq(RDiv(spotDiameter, I2R(2))))
      spotRadius == RDiv(spotDiameter, I2R(2))
      effectiveArea == calculateOverlapArea(pv, spotCenterY, spotCenterZ, spotRadius)
      inputArea == RMul(PI, RSq(RDiv(RMul(lens.aperture, Cos(outputAngleRad)), I2R(2))))
      concentrationRatio ==
        IF RGt(spotArea, Zero) THEN RDiv(inputArea, spotArea) ELSE Zero
  IN [spotDiameter |-> spotDiameter, spotArea |-> spotArea,
      spotCenterY |-> spotCenterY, spotCenterZ |-> spotCenterZ,
      effectiveArea |-> effectiveArea,
      concentrationRatio |-> concentrationRatio, isValid |-> TRUE,
      outputAngle |-> radToDeg(outputAngleRad),
      totalTransmittance |-> lens.transmittance]

\* the result of the trace of one lens, from the spot diameter on
SpotResult(lens, pv, spotDiameter, spotCenterY, outputAngleRad) ==
  LET spotCenterZ == Zero
      spotArea == RMul(PI, RSq(RDiv(spotDiameter, I2R(2))))
      spotRadius == RDiv(spotDiameter, I2R(2))
      effectiveArea == calculateOverlapArea(pv, spotCenterY, spotCenterZ, spotRadius)
      inputArea == RMul(PI, RSq(RDiv(lens.aperture, I2R(2))))
      concentrationRatio ==
        IF RGt(spotArea, Zero) THEN RDiv(inputArea, spotArea) ELSE Zero
  IN [spotDiameter |-> spotDiameter, spotArea |-> spotArea,
      spotCenterY |-> spotCenterY, spotCenterZ |-> spotCenterZ,
      effectiveArea |-> effectiveArea,
      concentrationRatio |-> concentrationRatio, isValid |-> TRUE,
      outputAngle |-> radToDeg(outputAngleRad),
      totalTransmittance |-> lens.transmittance]

\* SingleLensTrace without the Math.max(spotDiameter, 0.001)
SingleLensTraceNoFloor(lens, pv, zenithAngle, inputAngleRad) ==
  SpotResult(lens, pv,
    calculateSpotDiameterSingleLens(lens, pv.position, zenithAngle),
    RMul(RMul(lens.focalLength, Tan(inputAngleRad)),
         RDiv(RSub(pv.position, lens.position), lens.focalLength)),
    calculateOutputAngle(buildSystemMatrix(<<lens>>, pv.position),
                         inputAngleRad, Zero))

\* the trace of the one lens of a system
SingleLensTrace(lens, pv, zenithAngle, inputAngleRad) ==
  LET systemMatrix == buildSystemMatrix(<<lens>>, pv.position)
      outputAngleRad == calculateOutputAngle(systemMatrix, inputAngleRad, Zero)
      distanceToPV == RSub(pv.position, lens.position)
      focalShiftY == RMul(lens.focalLength, Tan(inputAngleRad))
      t == RDiv(distanceToPV, lens.focalLength)
      spotCenterY == RMul(focalShiftY, t)
      spotDiameter ==
        RMax(calculateSpotDiameterSingleLens(lens, pv.position, zenithAngle),
             MinSpotDiameter)
  IN SpotResult(lens, pv, spotDiameter, spotCenterY, outputAngleRad)

traceRaysThroughSystem(sys, zenithAngle) ==
  IF Len(sys.lenses) # 1 THEN InvalidRayTrace(zenithAngle)
  ELSE SingleLensTrace(sys.lenses[1], sys.pv, zenithAngle, degToRad(zenithAngle))

---------------------------------------------------------------------------
(* Power engine *)

InvalidPower ==
  [inputPower |-> Zero, outputPower |-> Zero, spotDiameter |-> Zero,
   effectiveArea |-> Zero, concentrationRatio |-> Zero,
   systemEfficiency |-> Zero, isValid |-> FALSE]

\* PowerResult with the efficiency reported only for inputPower > 1
PowerResultAboveOneWatt(rayTrace_, inputPower, outputPower) ==
  [inputPower |-> inputPower, outputPower |-> outputPower,
   spotDiameter |-> rayTrace_.spotDiameter,
   effectiveArea |-> rayTrace_.effectiveArea,
   concentrationRatio |-> rayTrace_.concentrationRatio,
   systemEfficiency |->
     IF RGt(inputPower, One) THEN RDiv(outputPower, inputPower) ELSE Zero,
   isValid |-> TRUE]

\* the result of calculatePower, from the two powers on
PowerResult(rayTrace_, inputPower, outputPower) ==
  [inputPower |-> inputPower, outputPower |-> outputPower,
   spotDiameter |-> rayTrace_.spotDiameter,
   effectiveArea |-> rayTrace_.effectiveArea,
   concentrationRatio |-> rayTrace_.concentrationRatio,
   systemEfficiency |->
     IF RGt(inputPower, Zero) THEN RDiv(outputPower, inputPower) ELSE Zero,
   isValid |-> TRUE]

\* PowerOfTrace with the input power taken on lens.aperture for the
\* effective aperture
PowerOfTraceFullAperture(sys, light, rayTrace_) ==
  IF ~rayTrace_.isValid THEN InvalidPower
  ELSE PowerResult(rayTrace_,
         RMul(light.intensity,
              RMul(PI, RSq(RDiv(sys.lenses[1].aperture, I2R(2))))),
         RMul(RMul(RMul(RMul(RMul(light.intensity, rayTrace_.totalTransmittance),
                             rayTrace_.concentrationRatio),
                        RMax(Zero, Cos(degToRad(rayTrace_.outputAngle)))),
                   rayTrace_.effectiveArea),
              sys.pv.efficiency))

\* PowerOfTrace without the Math.max(0, Math.cos(outputAngleRad))
PowerOfTraceNoClamp(sys, light, rayTrace_) ==
  IF ~rayTrace_.isValid THEN InvalidPower
  ELSE PowerResult(rayTrace_,
         RMul(light.intensity,
              RMul(PI, RSq(RDiv(calculateEffectiveAperture(sys.lenses[1].aperture,
                                                           light.zenithAngle),
                                I2R(2))))),
         RMul(RMul(RMul(RMul(RMul(light.intensity, rayTrace_.totalTransmittance),
                             rayTrace_.concentrationRatio),
                        Cos(degToRad(rayTrace_.outputAngle))),
                   rayTrace_.effectiveArea),
              sys.pv.efficiency))

\* calculatePower, from the result of the trace on
PowerOfTrace(sys, light, rayTrace_) ==
  IF ~rayTrace_.isValid THEN InvalidPower
  ELSE
    LET lens == sys.lenses[1]
        effectiveInputAperture ==
          calculateEffectiveAperture(lens.aperture, light.zenithAngle)
        inputArea == RMul(PI, RSq(RDiv(effectiveInputAperture, I2R(2))))
        inputPower == RMul(light.intensity, inputArea)
        outputAngleRad == degToRad(rayTrace_.outputAngle)
        incidenceCosFactor == RMax(Zero, Cos(outputAngleRad))
        concentrationFactor == rayTrace_.concentrationRatio
        I_optical == RMul(light.intensity, rayTrace_.totalTransmittance)
        I_effective == RMul(RMul(I_optical, concentrationFactor), incidenceCosFactor)
        P_incident == RMul(I_effective, rayTrace_.effectiveArea)
        outputPower == RMul(P_incident, sys.pv.efficiency)
    IN PowerResult(rayTrace_, inputPower, outputPower)

calculatePower(sys, light) ==
  PowerOfTrace(sys, light, traceRaysThroughSystem(sys, light.zenithAngle))

---------------------------------------------------------------------------
(* The multi-lens variant of the trace, packages/optics-core/src/optics.ts *)

\* the beam diameter on arrival at a lens after travelDistance, the beam
\* converging distanceToConvergence ahead
BeamAtLens(lens, currentBeamDiameter, travelDistance, distanceToConvergence) ==
  IF RGt(distanceToConvergence, Zero) /\ RLt(distanceToConvergence, travelDistance)
  THEN RMul(RMul(RDiv(RSub(travelDistance, distanceToConvergence),
                      lens.focalLength),
                 lens.aperture),
            <<1, 10>>)
  ELSE IF RGt(distanceToConvergence, Zero)
  THEN RMul(currentBeamDiameter,
            RDiv(RSub(distanceToConvergence, travelDistance),
                 distanceToConvergence))
  ELSE currentBeamDiameter

\* the loop over sortedLenses[i..]; convergencePoint is <<>> for null
RECURSIVE BeamLoop(_, _, _, _, _)
BeamLoop(sortedLenses, i, currentBeamDiameter, currentPosition, convergencePoint) ==
  IF i > Len(sortedLenses) THEN currentBeamDiameter
  ELSE BeamLoop(sortedLenses, i + 1,
         IF i > 1
         THEN RMin(IF convergencePoint # <<>>
                   THEN BeamAtLens(sortedLenses[i], currentBeamDiameter,
                          RSub(sortedLenses[i].position, currentPosition),
                          RSub(convergencePoint[1], currentPosition))
                   ELSE currentBeamDiameter,
                   sortedLenses[i].aperture)
         ELSE currentBeamDiameter,
         sortedLenses[i].position,
         <<RAdd(sortedLenses[i].position, sortedLenses[i].focalLength)>>)

\* the result of the multi-lens trace, from the spot diameter on
MultiLensSpotResult(firstLens, pv, spotDiameter, spotCenterY) ==
  LET spotCenterZ == Zero
      spotArea == RMul(PI, RSq(RDiv(spotDiameter, I2R(2))))
      spotRadius == RDiv(spotDiameter, I2R(2))
      effectiveArea == calculateOverlapArea(pv, spotCenterY, spotCenterZ, spotRadius)
      inputArea == RMul(PI, RSq(RDiv(firstLens.aperture, I2R(2))))
      concentrationRatio ==
        IF RGt(spotArea, Zero) THEN RDiv(inputArea, spotArea) ELSE Zero
  IN [spotDiameter |-> spotDiameter, spotArea |-> spotArea,
      spotCenterY |-> spotCenterY, spotCenterZ |-> spotCenterZ,
      effectiveArea |-> effectiveArea,
      concentrationRatio |-> concentrationRatio, isValid |-> TRUE]

\* the spot diameter of the multi-lens trace before its floor
RawSpotDiameter(currentBeamDiameter, distanceToPV, distanceToFocus) ==
  IF RLe(distanceToPV, Zero) THEN currentBeamDiameter
  ELSE IF RLt(RAbs(RSub(distanceToPV, distanceToFocus)), MinSpotDiameter)
  THEN MinSpotDiameter
  ELSE RMul(currentBeamDiameter,
            RDiv(RAbs(RSub(distanceToPV, distanceToFocus)), distanceToFocus))

\* the multi-lens trace from the sorted lenses on
MultiLensTrace(sortedLenses, lastLens, pv, zenithAngle) ==
  LET angleRad == degToRad(zenithAngle)
      currentBeamDiameter ==
        BeamLoop(sortedLenses, 1,
                 calculateEffectiveAperture(sortedLenses[1].aperture, zenithAngle),
                 sortedLenses[1].position, <<>>)
      distanceToPV == RSub(pv.position, lastLens.position)
      focalShiftY == RMul(lastLens.focalLength, Tan(angleRad))
      t == RDiv(distanceToPV, lastLens.focalLength)
      spotCenterY == RMul(focalShiftY, t)
      distanceToFocus == lastLens.focalLength
      spotDiameter ==
        RMax(RawSpotDiameter(currentBeamDiameter, distanceToPV, distanceToFocus),
             MinSpotDiameter)
  IN MultiLensSpotResult(sortedLenses[1], pv, spotDiameter, spotCenterY)

\* the sorted lenses with the last of them
WithLastLens(sortedLenses, pv, zenithAngle) ==
  MultiLensTrace(sortedLenses, sortedLenses[Len(sortedLenses)], pv, zenithAngle)

traceRaysMultiLens(sys, zenithAngle) ==
  IF Len(sys.lenses) = 0
  THEN [spotDiameter |-> Zero, spotArea |-> Zero, spotCenterY |-> Zero,
        spotCenterZ |-> Zero, effectiveArea |-> Zero,
        concentrationRatio |-> Zero, isValid |-> FALSE]
  ELSE WithLastLens(sortedByPosition(sys.lenses), sys.pv, zenithAngle)

---------------------------------------------------------------------------
(* Validation *)

\* validateLens with the rules chained by else: the first violated rule only
validateLensFirstOnly(lens) ==
  IF RLe(lens.aperture, Zero) THEN <<"Aperture must be positive">>
  ELSE IF RLe(lens.focalLength, Zero) THEN <<"Focal length must be positive">>
  ELSE IF RLt(lens.position, Zero) THEN <<"Position cannot be negative">>
  ELSE IF RLt(lens.transmittance, Zero) \/ RGt(lens.transmittance, One)
  THEN <<"Transmittance must be between 0 and 1">>
  ELSE <<>>

validateLens(lens) ==
  (IF RLe(lens.aperture, Zero) THEN <<"Aperture must be positive">> ELSE <<>>)
  \o (IF RLe(lens.focalLength, Zero) THEN <<"Focal length must be positive">> ELSE <<>>)
  \o (IF RLt(lens.position, Zero) THEN <<"Position cannot be negative">> ELSE <<>>)
  \o (IF RLt(lens.transmittance, Zero) \/ RGt(lens.transmittance, One)
      THEN <<"Transmittance must be between 0 and 1">> ELSE <<>>)

\* validatePV with the dimensions of both shapes checked
validatePVChecksAllDimensions(pv) ==
  (IF RLe(pv.width, Zero) THEN <<"Width must be positive">> ELSE <<>>)
  \o (IF RLe(pv.height, Zero) THEN <<"Height must be positive">> ELSE <<>>)
  \o (IF RLe(pv.diameter, Zero) THEN <<"Diameter must be positive">> ELSE <<>>)
  \o (IF RLe(pv.efficiency, Zero) \/ RGt(pv.efficiency, One)
      THEN <<"Efficiency must be between 0 and 1">> ELSE <<>>)
  \o (IF RLt(pv.position, Zero) THEN <<"Position cannot be negative">> ELSE <<>>)

\* validatePV with efficiency < 0 for efficiency <= 0
validatePVAcceptsZeroEfficiency(pv) ==
  (IF pv.shape = "rectangular"
   THEN (IF RLe(pv.width, Zero) THEN <<"Width must be positive">> ELSE <<>>)
        \o (IF RLe(pv.height, Zero) THEN <<"Height must be positive">> ELSE <<>>)
   ELSE IF pv.shape = "circular"
   THEN (IF RLe(pv.diameter, Zero) THEN <<"Diameter must be positive">> ELSE <<>>)
   ELSE <<>>)
  \o (IF RLt(pv.efficiency, Zero) \/ RGt(pv.efficiency, One)
      THEN <<"Efficiency must be between 0 and 1">> ELSE <<>>)
  \o (IF RLt(pv.position, Zero) THEN <<"Position cannot be negative">> ELSE <<>>)

validatePV(pv) ==
  (IF pv.shape = "rectangular"
   THEN (IF RLe(pv.width, Zero) THEN <<"Width must be positive">> ELSE <<>>)
        \o (IF RLe(pv.height, Zero) THEN <<"Height must be positive">> ELSE <<>>)
   ELSE IF pv.shape = "circular"
   THEN (IF RLe(pv.diameter, Zero) THEN <<"Diameter must be positive">> ELSE <<>>)
   ELSE <<>>)
  \o (IF RLe(pv.efficiency, Zero) \/ RGt(pv.efficiency, One)
      THEN <<"Efficiency must be between 0 and 1">> ELSE <<>>)
  \o (IF RLt(pv.position, Zero) THEN <<"Position cannot be negative">> ELSE <<>>)

\* Prefixed with the prefix put after the message
PrefixedBehind(prefix, errs) == [k \in 1..Len(errs) |-> errs[k] \o prefix]

\* errs.forEach(err => errors.push(`${prefix}${err}`))
Prefixed(prefix, errs) == [k \in 1..Len(errs) |-> prefix \o errs[k]]

\* the forEach over system.lenses, from lens `index` on
RECURSIVE LensErrorsFrom(_, _)
LensErrorsFrom(lenses, index) ==
  IF index > Len(lenses) THEN <<>>
  ELSE Prefixed("Lens " \o ToString(index) \o ": ", validateLens(lenses[index]))
       \o LensErrorsFrom(lenses, index + 1)

\* validateOpticalSystem with pv.position < lens.position for <=
validateOpticalSystemAllowsEqual(sys) ==
  (IF Len(sys.lenses) # 1 THEN <<"System must have exactly 1 lens">> ELSE <<>>)
  \o LensErrorsFrom(sys.lenses, 1)
  \o Prefixed("PV: ", validatePV(sys.pv))
  \o (IF Len(sys.lenses) = 1 /\ RLt(sys.pv.position, sys.lenses[1].position)
      THEN <<"PV must be positioned after the lens">> ELSE <<>>)

validateOpticalSystem(sys) ==
  (IF Len(sys.lenses) # 1 THEN <<"System must have exactly 1 lens">> ELSE <<>>)
  \o LensErrorsFrom(sys.lenses, 1)
  \o Prefixed("PV: ", validatePV(sys.pv))
  \o (IF Len(sys.lenses) = 1 /\ RLe(sys.pv.position, sys.lenses[1].position)
      THEN <<"PV must be positioned after the lens">> ELSE <<>>)

---------------------------------------------------------------------------
(* Angle sweep *)

\* the loop condition with angle < endAngle for angle <= endAngle
SweepStopsBeforeEnd(angle, endAngle) == angle < endAngle

\* the loop condition of sweepAngle
SweepContinues(angle, endAngle) == angle <= endAngle

\* the AngleSweepResult pushed for an angle
SweepPoint(angle, powerResult) ==
  [angle |-> angle, power |-> powerResult.outputPower,
   efficiency |-> powerResult.systemEfficiency]

\* the body of the loop of sweepAngle
SweepBody(sys, intensity, angle) ==
  SweepPoint(angle,
    calculatePower(sys, [intensity |-> intensity, zenithAngle |-> I2R(angle)]))

---------------------------------------------------------------------------
(* The divisors of the divisions of the engine, in the order of the calls *)

\* calculateOverlapArea, circular branch: 2, and 2 * d * r1 and 2 * d * r2
\* where the circles overlap in part
CircleDivisors(r1, r2, d) ==
  IF RGe(d, RAdd(r1, r2)) \/ RLe(d, RAbs(RSub(r1, r2))) THEN <<I2R(2)>>
  ELSE <<I2R(2), RMul(RMul(I2R(2), d), r1), RMul(RMul(I2R(2), d), r2)>>

\* traceRaysThroughSystem on one lens, rayTrace_ its result: 180 (degToRad),
\* focalLength (createLensMatrix), focalLength (t), focalLength (the spot
\* ratio, where the receiver is behind the lens and off its focal plane), 2
\* (spotArea, spotRadius), the divisors of calculateOverlapArea, 2
\* (inputArea), spotArea (where it is > 0) and Math.PI (radToDeg)
TraceDivisors(lens, pv, rayTrace_) ==
  <<I2R(180), lens.focalLength, lens.focalLength>>
  \o (IF RLe(RSub(pv.position, lens.position), Zero)
         \/ REq(RSub(pv.position, lens.position), lens.focalLength)
      THEN <<>> ELSE <<lens.focalLength>>)
  \o <<I2R(2), I2R(2)>>
  \o (IF pv.shape = "circular"
      THEN CircleDivisors(RDiv(rayTrace_.spotDiameter, I2R(2)),
                          RDiv(pv.diameter, I2R(2)),
                          RSqrt(RAdd(RSq(rayTrace_.spotCenterY),
                                     RSq(rayTrace_.spotCenterZ))))
      ELSE <<I2R(2), I2R(2), I2R(2), I2R(2)>>)
  \o <<I2R(2)>>
  \o (IF RGt(rayTrace_.spotArea, Zero) THEN <<rayTrace_.spotArea>> ELSE <<>>)
  \o <<PI>>

\* PowerDivisors without the check inputPower > 0
PowerDivisorsUnguarded(inputPower) == <<I2R(2), I2R(180), inputPower>>

\* calculatePower after its trace: 2 (inputArea), 180 (degToRad) and
\* inputPower, where it is > 0
PowerDivisors(inputPower) ==
  <<I2R(2), I2R(180)>> \o (IF RGt(inputPower, Zero) THEN <<inputPower>> ELSE <<>>)

\* the divisors of traceRaysThroughSystem
traceDivisors(sys, rayTrace_) ==
  IF Len(sys.lenses) # 1 THEN <<I2R(180)>>
  ELSE TraceDivisors(sys.lenses[1], sys.pv, rayTrace_)

\* the divisors of calculatePower, rayTrace_ the result of its trace and
\* inputPower the input power it computes
powerDivisors(sys, rayTrace_, inputPower) ==
  traceDivisors(sys, rayTrace_)
  \o (IF ~rayTrace_.isValid THEN <<>> ELSE PowerDivisors(inputPower))

---------------------------------------------------------------------------
(* Inputs *)

\* the longest lens list passed to the engine
MaxLenses == 2

\* the number of results after which the model stops following a sweep
MaxSweepResults == 6

Lens(aperture, focalLength, position, transmittance) ==
  [aperture |-> aperture, focalLength |-> focalLength, position |-> position,
   transmittance |-> transmittance]

createRectangularPV(width, height, efficiency, position) ==
  [shape |-> "rectangular", width |-> width, height |-> height,
   diameter |-> Zero, efficiency |-> efficiency, position |-> position]

createCircularPV(diameter, efficiency, position) ==
  [shape |-> "circular", width |-> Zero, height |-> Zero,
   diameter |-> diameter, efficiency |-> efficiency, position |-> position]

\* lenses of the single-lens systems traced: a grid of well-formed lenses, a
\* short lens far from the origin (its output angle is -3 times the zenith
\* angle) and lenses of focal length 0, of aperture 0 and of aperture 1
Lenses ==
  { Lens(a, f, p, t) : a \in {One, I2R(4)}, f \in {One, I2R(2)},
                       p \in {Zero, One}, t \in {Zero, <<1, 2>>, One} }
  \cup { Lens(One, <<1, 2>>, I2R(2), One), Lens(Zero, Zero, Zero, One),
         Lens(One, Zero, Zero, One) }

\* lenses of the systems with several lenses
StackLenses == { Lens(I2R(4), One, Zero, One), Lens(One, I2R(2), One, <<1, 2>>) }

LensLists ==
  {<<>>} \cup { <<l>> : l \in Lenses }
  \cup UNION { [1..n -> StackLenses] : n \in 2..MaxLenses }

PVs ==
  { createRectangularPV(w, w, e, q) :
      w \in {One, I2R(8)}, e \in {<<1, 5>>, One}, q \in {One, I2R(2), I2R(3)} }
  \cup
  { createCircularPV(d, e, q) :
      d \in {<<1, 2>>, I2R(8)}, e \in {<<1, 5>>, One}, q \in {One, I2R(2), I2R(3)} }

Systems == { [lenses |-> ls, pv |-> pv] : ls \in LensLists, pv \in PVs }

ZenithAngles == { I2R(0), I2R(45), I2R(60), I2R(90) }

\* the light sources: the intensities the settings form accepts (> 0) at
\* each zenith angle, and an intensity of 0, which importFromCsv accepts
LightSources ==
  { [intensity |-> i, zenithAngle |-> z] : i \in {One, I2R(5)}, z \in ZenithAngles }
  \cup { [intensity |-> Zero, zenithAngle |-> Zero] }

\* the system of the test "calculates power for valid system": a lens of
\* aperture 0.1, focal length 0.2 and transmittance 0.92 at position 0, a
\* receiver of 0.05 x 0.05 and efficiency 0.2 at position 0.2, under an
\* intensity of 1000 at a zenith angle of 0
TestSystem ==
  [lenses |-> <<Lens(<<1, 10>>, <<1, 5>>, Zero, <<23, 25>>)>>,
   pv |-> createRectangularPV(<<1, 20>>, <<1, 20>>, <<1, 5>>, <<1, 5>>)]

TestLightSource == [intensity |-> I2R(1000), zenithAngle |-> Zero]

\* the field values validation is called on: finite numbers (the callers
\* parse their inputs and drop NaN), in range and out of range
ValidationLenses ==
  { Lens(a, f, p, t) : a \in {I2R(-1), Zero, One}, f \in {I2R(-1), Zero, One},
                       p \in {I2R(-1), Zero, One},
                       t \in {<<-1, 2>>, Zero, One, <<3, 2>>} }

ValidationLensLists ==
  {<<>>} \cup { <<l>> : l \in ValidationLenses }
  \cup UNION { [1..n -> StackLenses \cup {Lens(Zero, One, I2R(-1), One)}] :
               n \in 2..MaxLenses }

ValidationPVs ==
  { createRectangularPV(w, h, e, q) :
      w \in {I2R(-1), Zero, One}, h \in {Zero, One},
      e \in {<<-1, 5>>, Zero, <<1, 5>>, One, <<6, 5>>},
      q \in {I2R(-1), Zero, One, I2R(2)} }
  \cup
  { createCircularPV(d, e, q) :
      d \in {I2R(-1), Zero, One},
      e \in {<<-1, 5>>, Zero, <<1, 5>>, One, <<6, 5>>},
      q \in {I2R(-1), Zero, One, I2R(2)} }

ValidationSystems ==
  { [lenses |-> ls, pv |-> pv] : ls \in ValidationLensLists, pv \in ValidationPVs }

\* the systems swept: well-formed ones, one whose receiver is not behind its
\* lens, one whose transmittance is out of range, and lens lists of every
\* length up to MaxLenses
SweepSystems ==
  { [lenses |-> <<Lens(One, I2R(2), Zero, One)>>,
     pv |-> createRectangularPV(One, One, <<1, 5>>, One)],
    [lenses |-> <<Lens(I2R(4), One, Zero, <<1, 2>>)>>,
     pv |-> createCircularPV(<<1, 2>>, One, I2R(2))],
    [lenses |-> <<Lens(One, One, One, One)>>,
     pv |-> createRectangularPV(I2R(8), I2R(8), One, One)],
    [lenses |-> <<Lens(One, I2R(2), Zero, <<3, 2>>)>>,
     pv |-> createRectangularPV(One, One, <<1, 5>>, One)] }
  \cup { [lenses |-> ls, pv |-> createRectangularPV(One, One, <<1, 5>>, I2R(3))] :
         ls \in {<<>>} \cup UNION { [1..n -> StackLenses] : n \in 2..MaxLenses } }

\* the lenses and the receiver positions buildSystemMatrix is called on:
\* lenses before, at and behind the origin, also at the same position, and
\* receivers before, at and behind the lenses
MatrixLenses ==
  { Lens(One, f, p, One) : f \in {<<1, 2>>, One, I2R(2)},
                           p \in {I2R(-1), Zero, One, I2R(2)} }

MatrixSystems ==
  { [lenses |-> ls, pv |-> createRectangularPV(One, One, One, q)] :
      ls \in UNION { [1..n -> MatrixLenses] : n \in 0..MaxLenses },
      q \in {Zero, One, I2R(2), I2R(3)} }

\* the systems every operation of the engine is called on: the systems
\* swept and two systems with a circular receiver, one of them with the
\* receiver before the lens
EngineSystems ==
  SweepSystems
  \cup { [lenses |-> <<Lens(I2R(4), I2R(2), Zero, One)>>,
          pv |-> createCircularPV(One, <<1, 5>>, One)],
         [lenses |-> <<Lens(One, One, One, <<1, 2>>)>>,
          pv |-> createCircularPV(I2R(8), One, Zero)] }

EngineLightSources ==
  { [intensity |-> I2R(5), zenithAngle |-> z] : z \in {I2R(0), I2R(45)} }

SweepStarts == {0, 30}
SweepEnds == {0, 45, 60}
SweepSteps == {-15, 0, 15, 30}

NoSweep ==
  [intensity |-> Zero, startAngle |-> 0, endAngle |-> 0, step |-> 0,
   angle |-> 0, results |-> <<>>, pc |-> "none"]

---------------------------------------------------------------------------
(* The engine called on a system and a light source *)

Init ==
  /\ \/ system \in Systems /\ lightSource \in LightSources
     \/ system = TestSystem /\ lightSource = TestLightSource
  /\ call = "none"
  /\ lensIndex = 0
  /\ rayTrace = <<>>
  /\ power = <<>>
  /\ errors = <<>>
  /\ sweep = NoSweep
  /\ matrix = <<>>
  /\ lensIdCounter = 0
  /\ localStorage = <<>>

TraceRays ==
  /\ call = "none"
  /\ call' = "traceRaysThroughSystem"
  /\ rayTrace' = <<traceRaysThroughSystem(system, lightSource.zenithAngle)>>
  /\ UNCHANGED <<system, lightSource, lensIndex, power, errors, sweep, matrix,
               lensIdCounter, localStorage>>

TraceRaysMultiLens ==
  /\ call = "none"
  /\ call' = "traceRaysMultiLens"
  /\ rayTrace' = <<traceRaysMultiLens(system, lightSource.zenithAngle)>>
  /\ UNCHANGED <<system, lightSource, lensIndex, power, errors, sweep, matrix,
               lensIdCounter, localStorage>>

CalculatePower ==
  /\ call = "none"
  /\ call' = "calculatePower"
  /\ power' = <<calculatePower(system, lightSource)>>
  /\ UNCHANGED <<system, lightSource, lensIndex, rayTrace, errors, sweep, matrix,
               lensIdCounter, localStorage>>

ValidateOpticalSystem ==
  /\ call = "none"
  /\ call' = "validateOpticalSystem"
  /\ errors' = <<validateOpticalSystem(system)>>
  /\ UNCHANGED <<system, lightSource, lensIndex, rayTrace, power, sweep, matrix,
               lensIdCounter, localStorage>>

Next == TraceRays \/ TraceRaysMultiLens \/ CalculatePower \/ ValidateOpticalSystem

Spec == Init /\ [][Next]_vars

---------------------------------------------------------------------------
(* The validation functions called on the lenses, the receiver and the system *)

InitValidation ==
  /\ system \in ValidationSystems
  /\ lightSource = [intensity |-> One, zenithAngle |-> Zero]
  /\ call = "none"
  /\ lensIndex = 0
  /\ rayTrace = <<>>
  /\ power = <<>>
  /\ errors = <<>>
  /\ sweep = NoSweep
  /\ matrix = <<>>
  /\ lensIdCounter = 0
  /\ localStorage = <<>>

ValidateLens ==
  /\ call = "none"
  /\ \E i \in 1..Len(system.lenses) :
       /\ lensIndex' = i
       /\ errors' = <<validateLens(system.lenses[i])>>
  /\ call' = "validateLens"
  /\ UNCHANGED <<system, lightSource, rayTrace, power, sweep, matrix,
               lensIdCounter, localStorage>>

ValidatePV ==
  /\ call = "none"
  /\ call' = "validatePV"
  /\ errors' = <<validatePV(system.pv)>>
  /\ UNCHANGED <<system, lightSource, lensIndex, rayTrace, power, sweep, matrix,
               lensIdCounter, localStorage>>

NextValidation == ValidateLens \/ ValidatePV \/ ValidateOpticalSystem

SpecValidation == InitValidation /\ [][NextValidation]_vars

---------------------------------------------------------------------------
(* sweepAngle, one iteration of its loop per step *)

InitSweep ==
  /\ system \in SweepSystems
  /\ lightSource = [intensity |-> One, zenithAngle |-> Zero]
  /\ call = "none"
  /\ lensIndex = 0
  /\ rayTrace = <<>>
  /\ power = <<>>
  /\ errors = <<>>
  /\ sweep = NoSweep
  /\ matrix = <<>>
  /\ lensIdCounter = 0
  /\ localStorage = <<>>

\* the call: results = [], angle = startAngle
SweepAngle(intensity, startAngle, endAngle, step) ==
  /\ call = "none"
  /\ call' = "sweepAngle"
  /\ sweep' = [intensity |-> intensity, startAngle |-> startAngle,
               endAngle |-> endAngle, step |-> step, angle |-> startAngle,
               results |-> <<>>, pc |-> "loop"]
  /\ UNCHANGED <<system, lightSource, lensIndex, rayTrace, power, errors, matrix,
               lensIdCounter, localStorage>>

\* one iteration: push the result for angle, then angle += step.  The model
\* follows a sweep for MaxSweepResults results
SweepLoop ==
  /\ sweep.pc = "loop"
  /\ SweepContinues(sweep.angle, sweep.endAngle)
  /\ Len(sweep.results) < MaxSweepResults
  /\ sweep' = [sweep EXCEPT
                 !.results = Append(@, SweepBody(system, sweep.intensity, sweep.angle)),
                 !.angle = @ + sweep.step]
  /\ UNCHANGED <<system, lightSource, call, lensIndex, rayTrace, power, errors, matrix,
               lensIdCounter, localStorage>>

\* the loop condition fails: return results
SweepReturn ==
  /\ sweep.pc = "loop"
  /\ ~SweepContinues(sweep.angle, sweep.endAngle)
  /\ sweep' = [sweep EXCEPT !.pc = "done"]
  /\ UNCHANGED <<system, lightSource, call, lensIndex, rayTrace, power, errors, matrix,
               lensIdCounter, localStorage>>

NextSweep ==
  \/ \E s \in SweepStarts, e \in SweepEnds, st \in SweepSteps :
       SweepAngle(I2R(5), s, e, st)
  \/ SweepLoop
  \/ SweepReturn

SpecSweep == InitSweep /\ [][NextSweep]_vars

---------------------------------------------------------------------------
(* buildSystemMatrix called on a lens list and a receiver position *)

InitMatrix ==
  /\ system \in MatrixSystems
  /\ lightSource = [intensity |-> One, zenithAngle |-> Zero]
  /\ call = "none"
  /\ lensIndex = 0
  /\ rayTrace = <<>>
  /\ power = <<>>
  /\ errors = <<>>
  /\ sweep = NoSweep
  /\ matrix = <<>>
  /\ lensIdCounter = 0
  /\ localStorage = <<>>

BuildSystemMatrix ==
  /\ call = "none"
  /\ call' = "buildSystemMatrix"
  /\ matrix' = <<buildSystemMatrix(system.lenses, system.pv.position)>>
  /\ system' = [system EXCEPT !.lenses = lensesAfterBuild(@)]
  /\ UNCHANGED <<lightSource, lensIndex, rayTrace, power, errors, sweep,
               lensIdCounter, localStorage>>

NextMatrix == BuildSystemMatrix

SpecMatrix == InitMatrix /\ [][NextMatrix]_vars

---------------------------------------------------------------------------
(* Every operation of the engine called on a system and a light source *)

InitEngine ==
  /\ system \in EngineSystems
  /\ lightSource \in EngineLightSources
  /\ call = "none"
  /\ lensIndex = 0
  /\ rayTrace = <<>>
  /\ power = <<>>
  /\ errors = <<>>
  /\ sweep = NoSweep
  /\ matrix = <<>>
  /\ lensIdCounter = 0
  /\ localStorage = <<>>

NextEngine == NextMatrix \/ Next \/ ValidateLens \/ ValidatePV \/ NextSweep

SpecEngine == InitEngine /\ [][NextEngine]_vars

---------------------------------------------------------------------------
(* The useOpticalSystem hook, apps/client/src/hooks/useOpticalSystem.ts.   *)
(* Its state is system = [lenses, pv], lightSource = [intensity,           *)
(* zenithAngle], the counter lensIdCounter of the module and the item the  *)
(* hook keeps in localStorage; call is the callback called last.  A lens   *)
(* of the hook has an id.  A CSV text is given as the rows parseCsvLine    *)
(* makes of its lines, each a sequence of field texts.                     *)

DEFAULT_SOLAR_INTENSITY == I2R(1361)

DEFAULT_LENS ==
  [aperture |-> <<1, 10>>, focalLength |-> <<1, 5>>, position |-> Zero,
   transmittance |-> <<23, 25>>]

DEFAULT_PV ==
  [shape |-> "rectangular", width |-> <<1, 20>>, height |-> <<1, 20>>,
   diameter |-> <<1, 20>>, efficiency |-> <<1, 5>>, position |-> <<1, 4>>]

\* `lens-${++lensIdCounter}`, counter the value of lensIdCounter before
generateLensId(counter) == "lens-" \o ToString(counter + 1)

createLens(id, aperture, focalLength, position, transmittance) ==
  [id |-> id, aperture |-> aperture, focalLength |-> focalLength,
   position |-> position, transmittance |-> transmittance]

\* createLens(generateLensId(), DEFAULT_LENS.aperture, ...)
DefaultLens(counter) ==
  createLens(generateLensId(counter), DEFAULT_LENS.aperture,
             DEFAULT_LENS.focalLength, DEFAULT_LENS.position,
             DEFAULT_LENS.transmittance)

\* { ...object, ...updates }
Spread(object, updates) ==
  [k \in DOMAIN object \cup DOMAIN updates |->
     IF k \in DOMAIN updates THEN updates[k] ELSE object[k]]

\* the StoredState the effect of the hook saves
StoredState(lenses, pv, intensity, zenithAngle, counter) ==
  [lenses |-> lenses, pv |-> pv, intensity |-> intensity,
   zenithAngle |-> zenithAngle, lensIdCounter |-> counter]

\* loadFromStorage on the item stored (<<>>: none): the lenses get the
\* default transmittance where they have none, an empty lens list becomes
\* the default lens, a longer one is cut to its first lens, and an intensity
\* of 1000 becomes DEFAULT_SOLAR_INTENSITY; <<>> for null
loadFromStorage(stored) ==
  IF stored = <<>> THEN <<>>
  ELSE
    LET data == stored[1]
        lenses == [i \in 1..Len(data.lenses) |->
                     Spread([transmittance |-> DEFAULT_LENS.transmittance],
                            data.lenses[i])]
    IN <<[data EXCEPT
            !.lenses = IF Len(lenses) = 0 THEN <<DefaultLens(0)>>
                       ELSE IF Len(lenses) > 1 THEN <<lenses[1]>>
                       ELSE lenses,
            !.intensity = IF @ = I2R(1000) THEN DEFAULT_SOLAR_INTENSITY ELSE @]>>

\* getInitialState, and lensIdCounter after it
getInitialState(stored) ==
  IF loadFromStorage(stored) # <<>>
  THEN [state |-> loadFromStorage(stored)[1],
        counter |-> loadFromStorage(stored)[1].lensIdCounter]
  ELSE [state |-> StoredState(<<DefaultLens(0)>>, DEFAULT_PV,
                              DEFAULT_SOLAR_INTENSITY, Zero, 1),
        counter |-> 1]

\* Number(text), for the texts of the rows imported
Number(text) ==
  CASE text \in {"0", ""} -> Zero
    [] text = "1" -> One
    [] text = "-1" -> I2R(-1)
    [] text = "1.5" -> <<3, 2>>
    [] text = "0.2" -> <<1, 5>>
    [] text = "0.5" -> <<1, 2>>
    [] text = "30" -> I2R(30)
    [] text = "800" -> I2R(800)
    [] text = "Infinity" -> PosInf
    [] OTHER -> NaN

\* parseNumber: <<num>>, or <<>> for null
parseNumber(value) ==
  IF IsFinite(Number(value)) THEN <<Number(value)>> ELSE <<>>

\* String.prototype.trim, for the texts of the rows imported
trim(text) ==
  CASE text = " aperture" -> "aperture"
    [] text = "pv " -> "pv"
    [] OTHER -> text

\* String.prototype.toLowerCase, for the texts of the header rows imported
toLowerCase(text) ==
  CASE text = "Entity" -> "entity"
    [] text = "INDEX" -> "index"
    [] OTHER -> text

\* the body of dataRows.forEach: acc holds lensMap, pvUpdates and
\* lightUpdates
ImportRow(acc, row) ==
  LET entity == trim(row[1])
      index == Number(row[2])
      field == trim(row[3])
      value == trim(row[4])
      entry == IF index[1] \in DOMAIN acc.lensMap
               THEN acc.lensMap[index[1]] ELSE <<>>
  IN IF Len(row) < 4 THEN acc
     ELSE IF entity = "lens"
     THEN IF \/ ~(IsFinite(index) /\ index[2] = 1 /\ index[1] >= 0)
             \/ field \notin {"aperture", "focalLength", "position", "transmittance"}
             \/ parseNumber(value) = <<>>
          THEN acc
          ELSE [acc EXCEPT !.lensMap =
                  Spread(@, index[1] :> Spread(entry, field :> parseNumber(value)[1]))]
     ELSE IF entity = "pv"
     THEN IF field = "shape"
          THEN IF value \in {"rectangular", "circular"}
               THEN [acc EXCEPT !.pvUpdates = Spread(@, "shape" :> value)]
               ELSE acc
          ELSE IF /\ field \in {"width", "height", "diameter", "efficiency", "position"}
                  /\ parseNumber(value) # <<>>
          THEN [acc EXCEPT !.pvUpdates = Spread(@, field :> parseNumber(value)[1])]
          ELSE acc
     ELSE IF /\ entity = "lightSource"
             /\ field \in {"intensity", "zenithAngle"}
             /\ parseNumber(value) # <<>>
     THEN [acc EXCEPT !.lightUpdates = Spread(@, field :> parseNumber(value)[1])]
     ELSE acc

\* dataRows.forEach, from row i on
RECURSIVE ImportRows(_, _, _)
ImportRows(rows, i, acc) ==
  IF i > Len(rows) THEN acc
  ELSE ImportRows(rows, i + 1, ImportRow(acc, rows[i]))

\* lensEntries.forEach: a lens for every index of lensMap, in ascending
\* order of the indices
RECURSIVE LensesOfEntries(_, _, _)
LensesOfEntries(lensMap, indices, counter) ==
  IF indices = {} THEN <<>>
  ELSE
    LET index == CHOOSE i \in indices : \A j \in indices : i <= j
        lensData == Spread(DEFAULT_LENS, lensMap[index])
    IN <<createLens(generateLensId(counter), lensData["aperture"],
                    lensData["focalLength"], lensData["position"],
                    lensData["transmittance"])>>
       \o LensesOfEntries(lensMap, indices \ {index}, counter + 1)

\* the items localStorage may hold when the hook is mounted: none, one with
\* no lens, one with a lens stored without transmittance and one with two
\* lenses
StoredStates ==
  { <<>> }
  \cup { <<StoredState(ls, DEFAULT_PV, I2R(1000), Zero, n)>> :
           ls \in { <<>>,
                    <<[id |-> "lens-1", aperture |-> <<1, 10>>,
                       focalLength |-> <<1, 5>>, position |-> Zero]>>,
                    <<createLens("lens-1", <<1, 10>>, <<1, 5>>, Zero, One),
                      createLens("lens-2", <<1, 10>>, <<1, 2>>, <<1, 10>>, One)>> },
           n \in {0, 2} }

\* the texts imported: one whose rows name the lens indices 0 and 1, one
\* with no usable lens row, and one with rows of one lens among rows that
\* are skipped
CsvTexts ==
  { << <<"entity", "index", "field", "value">>,
       <<"lens", "0", "aperture", "0.2">>,
       <<"lens", "1", "focalLength", "0.5">>,
       <<"pv", "0", "shape", "circular">>,
       <<"lightSource", "0", "intensity", "800">> >>,
    << <<"pv ", "0", "position", "0.5">>,
       <<"lens", "0", "aperture", "abc">>,
       <<"lens", "0", "id", "1">> >>,
    << <<"Entity", "INDEX", "field", "value">>,
       <<"lens", "0", " aperture", "0.2">>,
       <<"lens", "0", "focalLength", "0.5">>,
       <<"lens", "-1", "aperture", "1">>,
       <<"lens", "1.5", "aperture", "1">>,
       <<"lens", "1", "position", "Infinity">>,
       <<"lens", "0", "position">>,
       <<"lightSource", "0", "zenithAngle", "30">> >> }

\* the item saved by the effect of the hook after a render
Saved ==
  <<StoredState(system'.lenses, system'.pv, lightSource'.intensity,
                lightSource'.zenithAngle, lensIdCounter')>>

InitHook ==
  /\ \E stored \in StoredStates :
       LET initial == getInitialState(stored)
       IN /\ system = [lenses |-> initial.state.lenses, pv |-> initial.state.pv]
          /\ lightSource = [intensity |-> initial.state.intensity,
                            zenithAngle |-> initial.state.zenithAngle]
          /\ lensIdCounter = initial.counter
          /\ localStorage = <<StoredState(initial.state.lenses, initial.state.pv,
                                          initial.state.intensity,
                                          initial.state.zenithAngle,
                                          initial.counter)>>
  /\ call = "none"
  /\ lensIndex = 0
  /\ rayTrace = <<>>
  /\ power = <<>>
  /\ errors = <<>>
  /\ sweep = NoSweep
  /\ matrix = <<>>

UpdateLens(id, updates) ==
  /\ call' = "updateLens"
  /\ system' = [system EXCEPT !.lenses =
                  [i \in 1..Len(@) |->
                     IF @[i].id = id THEN Spread(@[i], updates) ELSE @[i]]]
  /\ UNCHANGED <<lightSource, lensIndex, rayTrace, power, errors, sweep, matrix,
                 lensIdCounter>>
  /\ localStorage' = Saved

UpdatePV(updates) ==
  /\ call' = "updatePV"
  /\ system' = [system EXCEPT !.pv = Spread(@, updates)]
  /\ UNCHANGED <<lightSource, lensIndex, rayTrace, power, errors, sweep, matrix,
                 lensIdCounter>>
  /\ localStorage' = Saved

SetIntensity(value) ==
  /\ call' = "setIntensity"
  /\ lightSource' = [lightSource EXCEPT !.intensity = value]
  /\ UNCHANGED <<system, lensIndex, rayTrace, power, errors, sweep, matrix,
                 lensIdCounter>>
  /\ localStorage' = Saved

SetZenithAngle(value) ==
  /\ call' = "setZenithAngle"
  /\ lightSource' = [lightSource EXCEPT !.zenithAngle = value]
  /\ UNCHANGED <<system, lensIndex, rayTrace, power, errors, sweep, matrix,
                 lensIdCounter>>
  /\ localStorage' = Saved

\* reset: lensIdCounter = 0, then the default lens; the item removed is
\* saved again by the effect
Reset ==
  /\ call' = "reset"
  /\ lensIdCounter' = 1
  /\ system' = [lenses |-> <<DefaultLens(0)>>, pv |-> DEFAULT_PV]
  /\ lightSource' = [intensity |-> DEFAULT_SOLAR_INTENSITY, zenithAngle |-> Zero]
  /\ UNCHANGED <<lensIndex, rayTrace, power, errors, sweep, matrix>>
  /\ localStorage' = Saved

\* importFromCsv on a text with a line (a text without one throws before
\* any state is set)
ImportFromCsv(rows) ==
  /\ Len(rows) > 0
  /\ LET hasHeader == /\ Len(rows[1]) >= 4
                      /\ toLowerCase(rows[1][1]) = "entity"
                      /\ toLowerCase(rows[1][2]) = "index"
                      /\ toLowerCase(rows[1][3]) = "field"
                      /\ toLowerCase(rows[1][4]) = "value"
         dataRows == IF hasHeader THEN Tail(rows) ELSE rows
         parsed == ImportRows(dataRows, 1,
                     [lensMap |-> <<>>, pvUpdates |-> <<>>, lightUpdates |-> <<>>])
         newLenses ==
           IF DOMAIN parsed.lensMap = {} THEN <<DefaultLens(lensIdCounter)>>
           ELSE LensesOfEntries(parsed.lensMap, DOMAIN parsed.lensMap, lensIdCounter)
     IN /\ system' = [lenses |-> newLenses,
                      pv |-> Spread(DEFAULT_PV, parsed.pvUpdates)]
        /\ lightSource' =
             [intensity |->
                IF "intensity" \in DOMAIN parsed.lightUpdates
                THEN parsed.lightUpdates["intensity"] ELSE DEFAULT_SOLAR_INTENSITY,
              zenithAngle |->
                IF "zenithAngle" \in DOMAIN parsed.lightUpdates
                THEN parsed.lightUpdates["zenithAngle"] ELSE Zero]
        /\ lensIdCounter' = Len(newLenses)
  /\ call' = "importFromCsv"
  /\ UNCHANGED <<lensIndex, rayTrace, power, errors, sweep, matrix>>
  /\ localStorage' = Saved

NextHook ==
  \/ \E id \in {"lens-1", "lens-2"},
        updates \in {[focalLength |-> One], [position |-> One]} :
       UpdateLens(id, updates)
  \/ \E updates \in {[shape |-> "circular"], [position |-> Zero]} :
       UpdatePV(updates)
  \/ \E value \in {I2R(500)} : SetIntensity(value)
  \/ \E value \in {I2R(45)} : SetZenithAngle(value)
  \/ Reset
  \/ \E rows \in CsvTexts : ImportFromCsv(rows)

SpecHook == InitHook /\ [][NextHook]_vars

---------------------------------------------------------------------------
(* Properties of the power engine *)

\* sys passes validateOpticalSystem
PassesValidation(sys) == validateOpticalSystem(sys) = <<>>

\* intensity > 0 and zenith angle in [0, 90)
SunAboveHorizon(light) ==
  /\ RGt(light.intensity, Zero)
  /\ RGe(light.zenithAngle, Zero)
  /\ RLt(light.zenithAngle, I2R(90))

\* calculatePower has returned for a validated system under a sun above the
\* horizon
PowerOfValidSystem ==
  /\ call = "calculatePower"
  /\ PassesValidation(system)
  /\ SunAboveHorizon(lightSource)

\* C1: for a system that passes validateOpticalSystem and a light source
\* with intensity > 0 and zenith angle in [0, 90), calculatePower returns
\* outputPower <= inputPower and 0 <= systemEfficiency <= 1
C1_OutputWithinInput ==
  PowerOfValidSystem =>
    /\ RLe(power[1].outputPower, power[1].inputPower)
    /\ RLe(Zero, power[1].systemEfficiency)
    /\ RLe(power[1].systemEfficiency, One)

\* C2 as stated: for a system that passes validateOpticalSystem and a light
\* source with intensity > 0 and zenith angle in [0, 90), outputPower > 0
C2_OutputPositive ==
  PowerOfValidSystem => RGt(power[1].outputPower, Zero)

\* the ray leaves the lens less than 90 degrees off the axis
LeavesForward(sys, light) ==
  RGt(Cos(degToRad(traceRaysThroughSystem(sys, light.zenithAngle).outputAngle)),
      Zero)

\* C2, amended: for such a system and light source outputPower >= 0, and
\* outputPower > 0 exactly when the lens transmittance is > 0, the spot
\* overlaps the receiver (effectiveArea > 0) and the cosine of the output
\* angle is > 0
C2_OutputPositiveWhenLit ==
  PowerOfValidSystem =>
    /\ RGe(power[1].outputPower, Zero)
    /\ RGt(power[1].outputPower, Zero)
         <=> /\ RGt(system.lenses[1].transmittance, Zero)
             /\ RGt(power[1].effectiveArea, Zero)
             /\ LeavesForward(system, lightSource)

\* a validated system whose tilted spot has left the receiver: no power
C2_SpotOffReceiver ==
  /\ PowerOfValidSystem
  /\ RGt(lightSource.zenithAngle, Zero)
  /\ RGt(system.lenses[1].transmittance, Zero)
  /\ power[1].effectiveArea = Zero
  /\ power[1].outputPower = Zero

\* C3: with the lens, the receiver and the intensity fixed, outputPower at a
\* zenith angle b is strictly less than outputPower at every angle a with
\* 0 <= a < b < 90; stated where light reaches the receiver at b
\* (transmittance > 0 and effectiveArea > 0), which includes a spot larger
\* than the receiver
C3_OutputDecreasesWithAngle ==
  /\ PowerOfValidSystem
  /\ RGt(system.lenses[1].transmittance, Zero)
  /\ RGt(power[1].effectiveArea, Zero)
  => \A a \in ZenithAngles :
       RLt(a, lightSource.zenithAngle) =>
         RLt(power[1].outputPower,
             calculatePower(system, [lightSource EXCEPT !.zenithAngle = a]).outputPower)

\* C4: traceRaysThroughSystem (either variant) on a system whose lens count
\* is not 1 returns isValid = false with spotDiameter, spotArea,
\* effectiveArea and concentrationRatio 0, and calculatePower on it returns
\* isValid = false with all its numbers 0
C4_SentinelUnlessOneLens ==
  Len(system.lenses) # 1 =>
    /\ call \in {"traceRaysThroughSystem", "traceRaysMultiLens"} =>
         /\ rayTrace[1].isValid = FALSE
         /\ rayTrace[1].spotDiameter = Zero
         /\ rayTrace[1].spotArea = Zero
         /\ rayTrace[1].effectiveArea = Zero
         /\ rayTrace[1].concentrationRatio = Zero
    /\ call = "calculatePower" =>
         /\ power[1].isValid = FALSE
         /\ power[1].inputPower = Zero
         /\ power[1].outputPower = Zero
         /\ power[1].spotDiameter = Zero
         /\ power[1].effectiveArea = Zero
         /\ power[1].concentrationRatio = Zero
         /\ power[1].systemEfficiency = Zero

---------------------------------------------------------------------------
(* Properties of the validation functions *)

\* s as a set
Range(s) == { s[k] : k \in 1..Len(s) }

\* the lens is as validateOpticalSystem requires
LensWellFormed(lens) ==
  /\ RGt(lens.aperture, Zero)
  /\ RGt(lens.focalLength, Zero)
  /\ RGe(lens.position, Zero)
  /\ RGe(lens.transmittance, Zero)
  /\ RLe(lens.transmittance, One)

\* the receiver is as validateOpticalSystem requires
PVWellFormed(pv) ==
  /\ pv.shape = "rectangular" => RGt(pv.width, Zero) /\ RGt(pv.height, Zero)
  /\ pv.shape = "circular" => RGt(pv.diameter, Zero)
  /\ RGt(pv.efficiency, Zero)
  /\ RLe(pv.efficiency, One)
  /\ RGe(pv.position, Zero)

WellFormed(sys) ==
  /\ Len(sys.lenses) = 1
  /\ LensWellFormed(sys.lenses[1])
  /\ PVWellFormed(sys.pv)
  /\ RGt(sys.pv.position, sys.lenses[1].position)

\* C5: validateOpticalSystem returns the empty list if and only if the
\* system has exactly one lens, with aperture > 0, focalLength > 0,
\* position >= 0 and transmittance in [0, 1], a receiver with positive
\* dimensions for its shape, efficiency in (0, 1] and position >= 0, and the
\* receiver position strictly greater than the lens position
C5_EmptyIffWellFormed ==
  call = "validateOpticalSystem" => (errors[1] = <<>> <=> WellFormed(system))

\* a one-lens system rejected only because the receiver is at the lens
C5_EqualPositionsRejected ==
  /\ call = "validateOpticalSystem"
  /\ Len(system.lenses) = 1
  /\ system.pv.position = system.lenses[1].position
  /\ errors[1] = <<"PV must be positioned after the lens">>

\* the messages of validateLens, in the order of its rules
LensMessages ==
  <<"Aperture must be positive", "Focal length must be positive",
    "Position cannot be negative", "Transmittance must be between 0 and 1">>

\* the rules of validateLens a lens violates, by their number
LensRulesViolated(lens) ==
  { r \in 1..4 :
      \/ r = 1 /\ ~RGt(lens.aperture, Zero)
      \/ r = 2 /\ ~RGt(lens.focalLength, Zero)
      \/ r = 3 /\ ~RGe(lens.position, Zero)
      \/ r = 4 /\ ~(RGe(lens.transmittance, Zero) /\ RLe(lens.transmittance, One)) }

\* C6: validateLens returns exactly one message for each violated rule among
\* aperture > 0, focalLength > 0, position >= 0 and transmittance in [0, 1],
\* in that order: its length is the number of violated rules
C6_OneMessagePerViolatedRule ==
  call = "validateLens" =>
    /\ Len(errors[1]) = Cardinality(LensRulesViolated(system.lenses[lensIndex]))
    /\ \A r \in 1..4 :
         LensMessages[r] \in Range(errors[1])
           <=> r \in LensRulesViolated(system.lenses[lensIndex])
    /\ \A i, j \in 1..Len(errors[1]) :
         i < j => \E r, q \in 1..4 :
                    r < q /\ errors[1][i] = LensMessages[r]
                          /\ errors[1][j] = LensMessages[q]

\* a lens violating all four rules, with all four messages
C6_AllFourRulesViolated ==
  /\ call = "validateLens"
  /\ LensRulesViolated(system.lenses[lensIndex]) = 1..4
  /\ errors[1] = LensMessages

\* the messages validatePV is to return for a receiver
PVMessagesDue(pv) ==
  { m \in {"Width must be positive", "Height must be positive",
           "Diameter must be positive", "Efficiency must be between 0 and 1",
           "Position cannot be negative"} :
      \/ m = "Width must be positive"
           /\ pv.shape = "rectangular" /\ RLe(pv.width, Zero)
      \/ m = "Height must be positive"
           /\ pv.shape = "rectangular" /\ RLe(pv.height, Zero)
      \/ m = "Diameter must be positive"
           /\ pv.shape = "circular" /\ RLe(pv.diameter, Zero)
      \/ m = "Efficiency must be between 0 and 1"
           /\ (RLe(pv.efficiency, Zero) \/ RGt(pv.efficiency, One))
      \/ m = "Position cannot be negative" /\ RLt(pv.position, Zero) }

\* C7: validatePV reports a dimension error only for the active shape
\* (width and height for a rectangular receiver, diameter for a circular
\* one), an efficiency error exactly when efficiency <= 0 or > 1, a position
\* error exactly when position < 0, and every error that is due
C7_PVMessagesAsDue ==
  call = "validatePV" =>
    /\ Range(errors[1]) = PVMessagesDue(system.pv)
    /\ Len(errors[1]) = Cardinality(PVMessagesDue(system.pv))

\* a rectangular receiver of efficiency 0 with every check failing: four
\* messages, none about its diameter of 0
C7_EveryCheckFails ==
  /\ call = "validatePV"
  /\ system.pv.shape = "rectangular"
  /\ system.pv.efficiency = Zero
  /\ system.pv.diameter = Zero
  /\ Len(errors[1]) = 4
  /\ "Diameter must be positive" \notin Range(errors[1])

---------------------------------------------------------------------------
(* Properties of the angle sweep *)

\* sweepAngle has returned from a call with start <= end and step >= 1
SweepReturned ==
  /\ call = "sweepAngle"
  /\ sweep.pc = "done"
  /\ sweep.startAngle <= sweep.endAngle
  /\ sweep.step >= 1

\* the results are those of the angles start, start + step, ... up to end,
\* each with the outputPower and systemEfficiency of calculatePower
SweepResultsAsComputed ==
  /\ Len(sweep.results) = (sweep.endAngle - sweep.startAngle) \div sweep.step + 1
  /\ \A i \in 1..Len(sweep.results) :
       /\ sweep.results[i].angle = sweep.startAngle + (i - 1) * sweep.step
       /\ sweep.results[i].power =
            calculatePower(system, [intensity |-> sweep.intensity,
              zenithAngle |-> I2R(sweep.results[i].angle)]).outputPower
       /\ sweep.results[i].efficiency =
            calculatePower(system, [intensity |-> sweep.intensity,
              zenithAngle |-> I2R(sweep.results[i].angle)]).systemEfficiency
  /\ \A i, j \in 1..Len(sweep.results) :
       i < j => sweep.results[i].angle < sweep.results[j].angle
  /\ (\E i \in 1..Len(sweep.results) : sweep.results[i].angle = sweep.endAngle)
       <=> (sweep.endAngle - sweep.startAngle) % sweep.step = 0
  /\ sweep.startAngle = 0 /\ sweep.endAngle = 60 /\ sweep.step = 15
       => [i \in 1..Len(sweep.results) |-> sweep.results[i].angle]
            = <<0, 15, 30, 45, 60>>

\* every result has power 0 and efficiency 0
SweepAllZero ==
  \A i \in 1..Len(sweep.results) :
    sweep.results[i].power = Zero /\ sweep.results[i].efficiency = Zero

\* C8 as stated: for start <= end and step >= 1 sweepAngle returns
\* floor((end - start) / step) + 1 results in ascending angle order, the i-th
\* (from 0) for the angle start + i * step with calculatePower's outputPower
\* and systemEfficiency, and a system that fails validation has power 0 and
\* efficiency 0 in every result
C8_SweepZeroWhenNotValid ==
  SweepReturned =>
    /\ SweepResultsAsComputed
    /\ ~PassesValidation(system) => SweepAllZero

\* C8 amended: as stated, with power 0 and efficiency 0 in every result for
\* the systems whose number of lenses is not 1
C8_SweepZeroUnlessOneLens ==
  SweepReturned =>
    /\ SweepResultsAsComputed
    /\ Len(system.lenses) # 1 => SweepAllZero

\* the sweep from 0 to 60 by 15 of a one-lens system that fails validation:
\* five results, the first of them with power
C8_RejectedSystemSwept ==
  /\ SweepReturned
  /\ sweep.startAngle = 0 /\ sweep.endAngle = 60 /\ sweep.step = 15
  /\ Len(sweep.results) = 5
  /\ Len(system.lenses) = 1
  /\ ~PassesValidation(system)
  /\ RGt(sweep.results[1].power, Zero)

\* C9: sweepAngle returns a finite sequence for every input: with a step of
\* 0 or less and start <= end, and with start > end, it never holds more
\* than one result
C9_AtMostOneResultWithoutRange ==
  call = "sweepAngle" /\ (sweep.step <= 0 \/ sweep.startAngle > sweep.endAngle)
    => Len(sweep.results) <= 1

---------------------------------------------------------------------------
(* Properties of the spot diameter *)

OneLensWithFocus(sys) ==
  Len(sys.lenses) = 1 /\ ~REq(sys.lenses[1].focalLength, Zero)

---------------------------------------------------------------------------
(* Properties of the spot and of its overlap with the receiver *)

\* traceRaysThroughSystem has returned for a system of one lens
TracedOneLens == call = "traceRaysThroughSystem" /\ Len(system.lenses) = 1

\* C11: for a single-lens system and a zenith angle with a reported
\* spotDiameter smaller than the lens aperture, the reported
\* concentrationRatio is greater than 1
C11_ConcentratesWhenSpotSmaller ==
  TracedOneLens /\ RLt(rayTrace[1].spotDiameter, system.lenses[1].aperture)
    => RGt(rayTrace[1].concentrationRatio, One)

\* a spot smaller than the aperture at a zenith angle of 60, where the
\* projected aperture is half the aperture
C11_SmallSpotUnderObliqueLight ==
  /\ TracedOneLens
  /\ lightSource.zenithAngle = I2R(60)
  /\ RLt(rayTrace[1].spotDiameter, system.lenses[1].aperture)
  /\ RGt(rayTrace[1].spotDiameter, MinSpotDiameter)
  /\ RGt(rayTrace[1].concentrationRatio, One)

\* the radius of the spot reported, the radius of the circular receiver and
\* the distance of the spot centre from the receiver centre
SpotR == RDiv(rayTrace[1].spotDiameter, I2R(2))
ReceiverR == RDiv(system.pv.diameter, I2R(2))
CentreDistance == RAbs(rayTrace[1].spotCenterY)

\* the area of a circle of radius r
CircleArea(r) == RMul(PI, RSq(r))

\* C12: for a circular receiver of radius R, a spot of radius r and a centre
\* distance d, the effective area is 0 when d >= r + R and the area of the
\* smaller circle when d <= |r - R|; a spot enclosed in a larger receiver
\* has effectiveArea = spotArea
C12_CircleOverlapLimits ==
  TracedOneLens /\ system.pv.shape = "circular" =>
    /\ RGe(CentreDistance, RAdd(SpotR, ReceiverR))
         => rayTrace[1].effectiveArea = Zero
    /\ RLe(CentreDistance, RAbs(RSub(SpotR, ReceiverR)))
         => rayTrace[1].effectiveArea = CircleArea(RMin(SpotR, ReceiverR))
    /\ RLe(RAdd(CentreDistance, SpotR), ReceiverR)
         => rayTrace[1].effectiveArea = rayTrace[1].spotArea

\* a spot off the axis and enclosed in a larger circular receiver
C12_SpotEnclosedOffAxis ==
  /\ TracedOneLens
  /\ system.pv.shape = "circular"
  /\ RGt(CentreDistance, Zero)
  /\ RLt(SpotR, ReceiverR)
  /\ RLe(RAdd(CentreDistance, SpotR), ReceiverR)
  /\ rayTrace[1].effectiveArea = rayTrace[1].spotArea

---------------------------------------------------------------------------
(* Properties of the divisions *)

\* the divisors of the call made
DivisorsOfCall ==
  IF call = "traceRaysThroughSystem" THEN traceDivisors(system, rayTrace[1])
  ELSE IF call = "calculatePower"
  THEN powerDivisors(system,
         traceRaysThroughSystem(system, lightSource.zenithAngle),
         power[1].inputPower)
  ELSE <<>>

\* C13: for a system that passes validateOpticalSystem and every zenith
\* angle, every division of traceRaysThroughSystem and of calculatePower (by
\* focalLength, by spotArea, by inputPower, by 2*d*r1 and 2*d*r2) has a
\* divisor that is a number other than 0
C13_NoDivisionByZero ==
  PassesValidation(system) =>
    \A d \in Range(DivisorsOfCall) : IsFinite(d) /\ d # Zero

\* calculatePower on a valid system whose spot and circular receiver overlap
\* in part, with all its divisions made
C13_AllDivisionsMade ==
  /\ call = "calculatePower"
  /\ PassesValidation(system)
  /\ system.pv.shape = "circular"
  /\ Len(DivisorsOfCall) = 15

---------------------------------------------------------------------------
(* Properties of buildSystemMatrix *)

\* the sequences with the elements of s in another order
Reorderings(s) ==
  { [i \in 1..Len(s) |-> s[f[i]]] :
      f \in { g \in [1..Len(s) -> 1..Len(s)] :
                \A i, j \in 1..Len(s) : i # j => g[i] # g[j] } }

\* s is in ascending order of position
Ascending(s) ==
  \A i \in 1..(Len(s) - 1) : RLe(s[i].position, s[i + 1].position)

\* the factor P(d) of the product: left out unless d > 0
P(d) == IF RGt(d, Zero) THEN createPropagationMatrix(d) ELSE Identity

\* L(fk) * P(pk - p(k-1)) * ... * L(f1) * P(p1 - 0) for the lenses s[1..k]
RECURSIVE LensChain(_, _)
LensChain(s, k) ==
  IF k = 0 THEN Identity
  ELSE multiplyMatrices(
         createLensMatrix(s[k].focalLength),
         multiplyMatrices(
           P(RSub(s[k].position, IF k = 1 THEN Zero ELSE s[k - 1].position)),
           LensChain(s, k - 1)))

\* P(q - pn) * L(fn) * ... * L(f1) * P(p1 - 0)
ChainToReceiver(s, q) ==
  multiplyMatrices(P(RSub(q, s[Len(s)].position)), LensChain(s, Len(s)))

BuiltMatrix == call = "buildSystemMatrix"

\* C14: buildSystemMatrix returns the identity for an empty lens list and
\* otherwise, for the lenses in ascending order of position,
\* P(q - pn) * L(fn) * P(pn - p(n-1)) * ... * L(f1) * P(p1 - 0) without the
\* P factors of a distance that is not > 0; it builds no propagation matrix
\* of a distance <= 0; one lens at position 0 with the receiver in its
\* focal plane gives A = 0 and D = 1
C14_MatrixIsTheChain ==
  BuiltMatrix =>
    /\ system.lenses = <<>> => matrix[1] = Identity
    /\ system.lenses # <<>> =>
         \A s \in Reorderings(system.lenses) :
           Ascending(s) => matrix[1] = ChainToReceiver(s, system.pv.position)
    /\ \A k \in 1..Len(PropagationDistances(sortedByPosition(system.lenses), 1,
                                             Zero, system.pv.position)) :
         RGt(PropagationDistances(sortedByPosition(system.lenses), 1, Zero,
                                  system.pv.position)[k], Zero)
    /\ (/\ Len(system.lenses) = 1
        /\ system.lenses[1].position = Zero
        /\ system.pv.position = system.lenses[1].focalLength)
         => matrix[1][1][1] = Zero /\ matrix[1][2][2] = One

\* two lenses passed in descending order of position, the first of them
\* before the origin, and the receiver at the position of the second: the
\* matrix is L(f2) * P(p2 - p1) * L(f1)
C14_FactorsLeftOut ==
  /\ BuiltMatrix
  /\ Len(system.lenses) = 2
  /\ RLt(system.lenses[2].position, Zero)
  /\ RGt(system.lenses[1].position, Zero)
  /\ system.pv.position = system.lenses[1].position
  /\ matrix[1] =
       multiplyMatrices(createLensMatrix(system.lenses[1].focalLength),
         multiplyMatrices(
           createPropagationMatrix(
             RSub(system.lenses[1].position, system.lenses[2].position)),
           createLensMatrix(system.lenses[2].focalLength)))

---------------------------------------------------------------------------
(* Properties of the engine as a whole *)

InactiveValues == { I2R(-1), Zero, One, I2R(8) }

\* the receivers that differ from pv in the fields of the inactive shape
InactiveVariants(pv) ==
  IF pv.shape = "circular"
  THEN { [pv EXCEPT !.width = w, !.height = h] :
           w \in InactiveValues, h \in InactiveValues }
  ELSE { [pv EXCEPT !.diameter = d] : d \in InactiveValues }

\* C17: two receivers of the same shape, active dimensions, efficiency and
\* position that differ in the fields of the inactive shape (width and
\* height of a circular receiver, diameter of a rectangular one) give the
\* same result of validatePV, validateOpticalSystem, traceRaysThroughSystem
\* and calculatePower, for every lens and light source
C17_InactiveFieldsNotRead ==
  \A pv \in InactiveVariants(system.pv) :
    /\ call = "validatePV" => validatePV(pv) = errors[1]
    /\ call = "validateOpticalSystem" =>
         validateOpticalSystem([system EXCEPT !.pv = pv]) = errors[1]
    /\ call = "traceRaysThroughSystem" =>
         traceRaysThroughSystem([system EXCEPT !.pv = pv],
                                lightSource.zenithAngle) = rayTrace[1]
    /\ call = "calculatePower" =>
         calculatePower([system EXCEPT !.pv = pv], lightSource) = power[1]

\* validatePV has accepted a circular receiver whose width and height are 0
C17_CircularReceiverAccepted ==
  /\ call = "validatePV"
  /\ system.pv.shape = "circular"
  /\ system.pv.width = Zero /\ system.pv.height = Zero
  /\ errors[1] = <<>>

---------------------------------------------------------------------------
(* Properties of the overlap with a rectangular receiver *)

\* the interval [lo1, hi1] clamped to [lo2, hi2]
Clamped(lo1, hi1, lo2, hi2) == <<RMax(lo2, lo1), RMin(hi2, hi1)>>

\* the spot's bounding square clamped to the receiver, on the z axis (the
\* width of the receiver) and on the y axis (its height)
BoxZ ==
  Clamped(RSub(rayTrace[1].spotCenterZ, SpotR), RAdd(rayTrace[1].spotCenterZ, SpotR),
          RNeg(RDiv(system.pv.width, I2R(2))), RDiv(system.pv.width, I2R(2)))
BoxY ==
  Clamped(RSub(rayTrace[1].spotCenterY, SpotR), RAdd(rayTrace[1].spotCenterY, SpotR),
          RNeg(RDiv(system.pv.height, I2R(2))), RDiv(system.pv.height, I2R(2)))

BoxOverlap == RMul(RSub(BoxZ[2], BoxZ[1]), RSub(BoxY[2], BoxY[1]))

\* the distance of the centre of the box overlap from the spot centre
BoxCentreDistance ==
  RSqrt(RAdd(RSq(RSub(RDiv(RAdd(BoxY[1], BoxY[2]), I2R(2)), rayTrace[1].spotCenterY)),
             RSq(RSub(RDiv(RAdd(BoxZ[1], BoxZ[2]), I2R(2)), rayTrace[1].spotCenterZ))))

BoxCentreNearSpotCentre == RLt(BoxCentreDistance, RDiv(SpotR, I2R(2)))

\* C18: for a rectangular receiver the effective area is 0 when the clamped
\* intervals of the spot's bounding square and the receiver do not overlap
\* on either axis, min(boxOverlap, spotArea) when the centre of the box
\* overlap is within half the spot radius of the spot centre, and
\* min(boxOverlap * 0.785, spotArea) otherwise
C18_RectangleOverlapRule ==
  TracedOneLens /\ system.pv.shape = "rectangular" =>
    rayTrace[1].effectiveArea =
      IF RGe(BoxZ[1], BoxZ[2]) \/ RGe(BoxY[1], BoxY[2]) THEN Zero
      ELSE IF BoxCentreNearSpotCentre
      THEN RMin(BoxOverlap, rayTrace[1].spotArea)
      ELSE RMin(RMul(BoxOverlap, <<157, 200>>), rayTrace[1].spotArea)

\* a spot partly on a rectangular receiver, the centre of the box overlap
\* away from the spot centre: the effective area is boxOverlap * 0.785
C18_CorrectedOverlap ==
  /\ TracedOneLens
  /\ system.pv.shape = "rectangular"
  /\ RLt(BoxZ[1], BoxZ[2]) /\ RLt(BoxY[1], BoxY[2])
  /\ ~BoxCentreNearSpotCentre
  /\ rayTrace[1].effectiveArea = RMul(BoxOverlap, <<157, 200>>)
  /\ RLt(rayTrace[1].effectiveArea, rayTrace[1].spotArea)

---------------------------------------------------------------------------
(* Properties of the power formulas *)

\* calculatePower has returned for a system of one lens
PowerOfOneLens == call = "calculatePower" /\ Len(system.lenses) = 1

\* the trace of the system under the light source
TraceOfSystem == traceRaysThroughSystem(system, lightSource.zenithAngle)

\* intensity * pi * (aperture * cos(zenith) / 2)^2
ClaimedInputPower ==
  RMul(lightSource.intensity,
       RMul(PI, RSq(RDiv(RMul(system.lenses[1].aperture,
                              Cos(degToRad(lightSource.zenithAngle))),
                         I2R(2)))))

\* (pi * (aperture / 2)^2) / spotArea when spotArea > 0, and 0 otherwise
ClaimedConcentrationRatio ==
  IF RGt(TraceOfSystem.spotArea, Zero)
  THEN RDiv(RMul(PI, RSq(RDiv(system.lenses[1].aperture, I2R(2)))),
            TraceOfSystem.spotArea)
  ELSE Zero

\* intensity * transmittance * concentrationRatio * max(0, cos(outputAngle))
\* * effectiveArea * efficiency
ClaimedOutputPower ==
  RMul(RMul(RMul(RMul(RMul(lightSource.intensity,
                           system.lenses[1].transmittance),
                      ClaimedConcentrationRatio),
                 RMax(Zero, Cos(degToRad(TraceOfSystem.outputAngle)))),
            TraceOfSystem.effectiveArea),
       system.pv.efficiency)

\* C19: for a single-lens system calculatePower returns
\* inputPower = intensity * pi * (aperture * cos(zenith) / 2)^2,
\* outputPower = intensity * transmittance * concentrationRatio
\* * max(0, cos(outputAngle)) * effectiveArea * efficiency, with
\* concentrationRatio = (pi * (aperture / 2)^2) / spotArea when spotArea > 0
\* and 0 otherwise, and systemEfficiency = outputPower / inputPower when
\* inputPower > 0 and 0 otherwise
C19_PowerFormulas ==
  PowerOfOneLens =>
    /\ power[1].inputPower = ClaimedInputPower
    /\ power[1].concentrationRatio = ClaimedConcentrationRatio
    /\ power[1].outputPower = ClaimedOutputPower
    /\ power[1].systemEfficiency =
         IF RGt(power[1].inputPower, Zero)
         THEN RDiv(power[1].outputPower, power[1].inputPower)
         ELSE Zero

\* oblique light on a lens, the spot partly on the receiver: every factor
\* of the output power is other than 0 and 1
C19_EveryFactorAtWork ==
  /\ PowerOfOneLens
  /\ lightSource.zenithAngle = I2R(45)
  /\ lightSource.intensity = I2R(5)
  /\ system.lenses[1].transmittance = <<1, 2>>
  /\ system.pv.efficiency = <<1, 5>>
  /\ RGt(power[1].outputPower, Zero)
  /\ RLt(power[1].effectiveArea, TraceOfSystem.spotArea)
  /\ RGt(power[1].concentrationRatio, One)
  /\ RLt(power[1].inputPower, RMul(lightSource.intensity,
           RMul(PI, RSq(RDiv(system.lenses[1].aperture, I2R(2))))))

---------------------------------------------------------------------------
(* Properties of the power at a zenith angle of 0 *)

\* the rectangle contains the bounding square of the spot reported by
\* calculatePower, or the circular receiver contains the spot (the spot
\* centre is on the axis at a zenith angle of 0)
SpotInsideReceiver ==
  IF system.pv.shape = "rectangular"
  THEN /\ RLe(power[1].spotDiameter, system.pv.width)
       /\ RLe(power[1].spotDiameter, system.pv.height)
  ELSE RLe(power[1].spotDiameter, system.pv.diameter)

\* calculatePower has returned for a system that passes validation, the
\* zenith angle 0 and the spot inside the receiver
PowerOnAxis ==
  /\ call = "calculatePower"
  /\ PassesValidation(system)
  /\ lightSource.zenithAngle = Zero
  /\ SpotInsideReceiver

\* isValid, inputPower > 0 and systemEfficiency = transmittance * efficiency;
\* with transmittance 0.92 and efficiency 0.2, outputPower < inputPower and
\* 0 < systemEfficiency < 1
FullSpotEfficiency ==
  /\ power[1].isValid
  /\ RGt(power[1].inputPower, Zero)
  /\ power[1].systemEfficiency =
       RMul(system.lenses[1].transmittance, system.pv.efficiency)
  /\ (system.lenses[1].transmittance = <<23, 25>> /\ system.pv.efficiency = <<1, 5>>)
       => /\ RLt(power[1].outputPower, power[1].inputPower)
          /\ RGt(power[1].systemEfficiency, Zero)
          /\ RLt(power[1].systemEfficiency, One)

\* C20 as stated: at a zenith angle of 0, for a system that passes
\* validateOpticalSystem and whose spot is inside the receiver, calculatePower
\* returns isValid = true, inputPower > 0 and systemEfficiency = lens
\* transmittance * receiver efficiency, under every light source
C20_EfficiencyOnAxis == PowerOnAxis => FullSpotEfficiency

\* C20 amended: the same under a light source of intensity > 0
C20_EfficiencyOnAxisWhenLit ==
  PowerOnAxis /\ RGt(lightSource.intensity, Zero) => FullSpotEfficiency

\* the system of the test under an intensity of 1000: systemEfficiency is
\* 0.92 * 0.2 = 0.184
C20_TestSystemPower ==
  /\ PowerOnAxis
  /\ system = TestSystem
  /\ lightSource = TestLightSource
  /\ power[1].systemEfficiency = <<23, 125>>
  /\ RLt(power[1].outputPower, power[1].inputPower)

---------------------------------------------------------------------------
(* Properties of the spot of a single lens *)

\* d = receiver position - lens position
ReceiverDistance == RSub(system.pv.position, system.lenses[1].position)

\* aperture * cos(zenith)
ProjectedAperture ==
  RMul(system.lenses[1].aperture, Cos(degToRad(lightSource.zenithAngle)))

\* s: aperture * cos(zenith) when d <= 0, 0 when d = focalLength, and
\* aperture * cos(zenith) * |d - focalLength| / focalLength otherwise
ClaimedSpot ==
  IF RLe(ReceiverDistance, Zero) THEN ProjectedAperture
  ELSE IF REq(ReceiverDistance, system.lenses[1].focalLength) THEN Zero
  ELSE RMul(ProjectedAperture,
            RDiv(RAbs(RSub(ReceiverDistance, system.lenses[1].focalLength)),
                 system.lenses[1].focalLength))

\* C21: for a single-lens system traceRaysThroughSystem reports
\* spotDiameter = max(0.001, s), spotCenterY = focalLength * tan(zenith)
\* * (d / focalLength) and spotCenterZ = 0
C21_SpotOfOneLens ==
  TracedOneLens =>
    /\ rayTrace[1].spotDiameter = RMax(<<1, 1000>>, ClaimedSpot)
    /\ rayTrace[1].spotCenterY =
         RMul(RMul(system.lenses[1].focalLength,
                   Tan(degToRad(lightSource.zenithAngle))),
              RDiv(ReceiverDistance, system.lenses[1].focalLength))
    /\ rayTrace[1].spotCenterZ = Zero

\* oblique light on a lens whose receiver is behind it and off its focal
\* plane: the spot is off the axis and wider than 0.001
C21_ObliqueSpot ==
  /\ TracedOneLens
  /\ lightSource.zenithAngle = I2R(60)
  /\ RGt(ReceiverDistance, Zero)
  /\ ~REq(ReceiverDistance, system.lenses[1].focalLength)
  /\ RGt(rayTrace[1].spotDiameter, <<1, 1000>>)
  /\ RGt(rayTrace[1].spotCenterY, Zero)

\* the receiver at the position of the lens: the spot is the projected
\* aperture
C21_ReceiverAtLens ==
  /\ TracedOneLens
  /\ ReceiverDistance = Zero
  /\ lightSource.zenithAngle = I2R(60)
  /\ rayTrace[1].spotDiameter = ProjectedAperture
  /\ RGt(ProjectedAperture, <<1, 1000>>)

---------------------------------------------------------------------------
(* The order of the messages of validateOpticalSystem *)

\* the number of lens-cardinality messages
CardinalityMessages(sys) == IF Len(sys.lenses) # 1 THEN 1 ELSE 0

\* the number of messages of the lenses before lens i
RECURSIVE LensMessagesBefore(_, _)
LensMessagesBefore(sys, i) ==
  IF i <= 1 THEN 0
  ELSE LensMessagesBefore(sys, i - 1) + Len(validateLens(sys.lenses[i - 1]))

\* the number of receiver-position messages
PositionMessages(sys) ==
  IF Len(sys.lenses) = 1 /\ RLe(sys.pv.position, sys.lenses[1].position)
  THEN 1 ELSE 0

\* where the messages of the receiver begin
PVOffset(sys) ==
  CardinalityMessages(sys) + LensMessagesBefore(sys, Len(sys.lenses) + 1)

\* C22: the list returned by validateOpticalSystem holds, in this order, the
\* lens-cardinality message if the number of lenses is not 1, for each lens
\* in input order each message of validateLens prefixed with
\* "Lens <1-based index>: ", each message of validatePV prefixed with "PV: ",
\* and the receiver-position message if there is exactly one lens and the
\* receiver position is <= that lens's position; its length is the sum of
\* these parts
C22_MessagesInOrder ==
  call = "validateOpticalSystem" =>
    /\ Len(errors[1]) = PVOffset(system) + Len(validatePV(system.pv))
                        + PositionMessages(system)
    /\ Len(system.lenses) # 1 => errors[1][1] = "System must have exactly 1 lens"
    /\ \A i \in 1..Len(system.lenses) :
         \A k \in 1..Len(validateLens(system.lenses[i])) :
           errors[1][CardinalityMessages(system) + LensMessagesBefore(system, i) + k]
             = "Lens " \o ToString(i) \o ": " \o validateLens(system.lenses[i])[k]
    /\ \A k \in 1..Len(validatePV(system.pv)) :
         errors[1][PVOffset(system) + k] = "PV: " \o validatePV(system.pv)[k]
    /\ PositionMessages(system) = 1 =>
         errors[1][Len(errors[1])] = "PV must be positioned after the lens"
    /\ Len(system.lenses) # 1 =>
         \A k \in 1..Len(errors[1]) :
           errors[1][k] # "PV must be positioned after the lens"

\* two lenses, the second with two messages, and a receiver with three
C22_EveryPartButPosition ==
  /\ call = "validateOpticalSystem"
  /\ Len(system.lenses) = 2
  /\ Len(validateLens(system.lenses[1])) = 0
  /\ Len(validateLens(system.lenses[2])) = 2
  /\ Len(validatePV(system.pv)) = 3
  /\ Len(errors[1]) = 6
  /\ errors[1][2] = "Lens 2: Aperture must be positive"
  /\ errors[1][4] = "PV: Width must be positive"

\* one lens with a message, a receiver with a message, and the receiver not
\* behind the lens
C22_PositionMessageLast ==
  /\ call = "validateOpticalSystem"
  /\ Len(system.lenses) = 1
  /\ Len(validateLens(system.lenses[1])) = 1
  /\ Len(validatePV(system.pv)) = 1
  /\ errors[1][3] = "PV must be positioned after the lens"

---------------------------------------------------------------------------
(* Properties of a lens of focal length 0 *)

\* C23: when traceRaysThroughSystem or calculatePower (and through them
\* buildSystemMatrix) is called without validation on a single lens whose
\* focalLength is 0, no division has the divisor 0
C23_ZeroFocalLengthNotDivisor ==
  Len(system.lenses) = 1 /\ system.lenses[1].focalLength = Zero =>
    \A d \in Range(DivisorsOfCall) : d # Zero

---------------------------------------------------------------------------
(* Properties of the isValid flag *)

C24_TwoLensesNotValid ==
  /\ call = "traceRaysThroughSystem"
  /\ Len(system.lenses) = 2
  /\ ~rayTrace[1].isValid

---------------------------------------------------------------------------
(* Bounds of the effective area *)

\* the spot and the circular receiver overlap in part
CirclesOverlapInPart ==
  /\ system.pv.shape = "circular"
  /\ RLt(CentreDistance, RAdd(SpotR, ReceiverR))
  /\ RGt(CentreDistance, RAbs(RSub(SpotR, ReceiverR)))

\* C25: for every system that passes validateOpticalSystem and every zenith
\* angle, the effectiveArea reported by traceRaysThroughSystem is at least 0,
\* at most spotArea and at most the area of the receiver, for the circular
\* and for the rectangular receiver
C25_EffectiveAreaBounded ==
  call = "traceRaysThroughSystem" /\ PassesValidation(system) =>
    /\ RGe(rayTrace[1].effectiveArea, Zero)
    /\ RLe(rayTrace[1].effectiveArea, rayTrace[1].spotArea)
    /\ RLe(rayTrace[1].effectiveArea, calculatePVArea(system.pv))

\* a valid system whose spot and circular receiver overlap in part
C25_PartialCircleOverlap ==
  /\ call = "traceRaysThroughSystem"
  /\ PassesValidation(system)
  /\ CirclesOverlapInPart
  /\ RGt(rayTrace[1].effectiveArea, Zero)
  /\ RLt(rayTrace[1].effectiveArea, rayTrace[1].spotArea)

\* a valid system whose spot covers its rectangular receiver
C25_ReceiverCovered ==
  /\ call = "traceRaysThroughSystem"
  /\ PassesValidation(system)
  /\ system.pv.shape = "rectangular"
  /\ rayTrace[1].effectiveArea = calculatePVArea(system.pv)
  /\ RLt(rayTrace[1].effectiveArea, rayTrace[1].spotArea)

---------------------------------------------------------------------------
(* The output power against the power on the full aperture *)

\* intensity >= 0, transmittance in [0, 1], receiver efficiency in (0, 1] and
\* aperture > 0
LossesInRange ==
  /\ RGe(lightSource.intensity, Zero)
  /\ RGe(system.lenses[1].transmittance, Zero)
  /\ RLe(system.lenses[1].transmittance, One)
  /\ RGt(system.pv.efficiency, Zero)
  /\ RLe(system.pv.efficiency, One)
  /\ RGt(system.lenses[1].aperture, Zero)

\* intensity * transmittance * efficiency * pi * (aperture / 2)^2
FullAperturePower ==
  RMul(RMul(RMul(lightSource.intensity, system.lenses[1].transmittance),
            system.pv.efficiency),
       RMul(PI, RSq(RDiv(system.lenses[1].aperture, I2R(2)))))

\* C26: for every single-lens system with intensity >= 0, transmittance in
\* [0, 1], receiver efficiency in (0, 1] and aperture > 0, and every zenith
\* angle, the outputPower of calculatePower is at most
\* intensity * transmittance * efficiency * pi * (aperture / 2)^2; stated for
\* the zenith angles below 90 degrees, where the tangent is a number
C26_OutputWithinFullAperture ==
  PowerOfOneLens /\ LossesInRange /\ RLt(lightSource.zenithAngle, I2R(90)) =>
    RLe(power[1].outputPower, FullAperturePower)

\* the same for the lenses with a focal length other than 0
C26_OutputWithinFullApertureWithFocus ==
  PowerOfOneLens /\ LossesInRange /\ RLt(lightSource.zenithAngle, I2R(90))
  /\ system.lenses[1].focalLength # Zero =>
    RLe(power[1].outputPower, FullAperturePower)

---------------------------------------------------------------------------
(* The determinant of the system matrix *)

\* A * D - B * C
Determinant(m) == RSub(RMul(m[1][1], m[2][2]), RMul(m[1][2], m[2][1]))

\* C27: the matrix returned by buildSystemMatrix has determinant
\* A * D - B * C = 1, for every lens list with focal lengths other than 0
\* and every receiver position
C27_DeterminantOne ==
  BuiltMatrix /\ (\A l \in Range(system.lenses) : l.focalLength # Zero) =>
    Determinant(matrix[1]) = One

\* a matrix of two lenses apart and a receiver behind them, with no entry
\* that is 0 or 1
C27_NoTrivialEntry ==
  /\ BuiltMatrix
  /\ Len(system.lenses) = 2
  /\ \A i \in 1..2 : \A j \in 1..2 :
       matrix[1][i][j] # Zero /\ matrix[1][i][j] # One
  /\ Determinant(matrix[1]) = One

---------------------------------------------------------------------------
(* The arguments of the two-segment formula of the circle overlap *)

\* neither d >= r + R nor d <= |r - R| holds: calculateOverlapArea goes on to
\* the two-segment formula
ReachesTwoSegments ==
  /\ TracedOneLens
  /\ system.pv.shape = "circular"
  /\ ~RGe(CentreDistance, RAdd(SpotR, ReceiverR))
  /\ ~RLe(CentreDistance, RAbs(RSub(SpotR, ReceiverR)))

\* (d^2 + ra^2 - rb^2) / (2 * d * ra)
AcosArgument(d, ra, rb) ==
  RDiv(RSub(RAdd(RSq(d), RSq(ra)), RSq(rb)), RMul(RMul(I2R(2), d), ra))

\* (-d + r1 + r2) * (d + r1 - r2) * (d - r1 + r2) * (d + r1 + r2)
RootProduct(d, r1, r2) ==
  RMul(RMul(RAdd(RNeg(d), RAdd(r1, r2)), RSub(RAdd(d, r1), r2)),
       RMul(RAdd(RSub(d, r1), r2), RAdd(d, RAdd(r1, r2))))

\* d, r1 and r2 are > 0, both acos arguments are in [-1, 1], the product
\* under the square root is >= 0 and the area returned is a number >= 0
TwoSegmentsWellDefined ==
  /\ RGt(CentreDistance, Zero) /\ RGt(SpotR, Zero) /\ RGt(ReceiverR, Zero)
  /\ RGe(AcosArgument(CentreDistance, SpotR, ReceiverR), I2R(-1))
  /\ RLe(AcosArgument(CentreDistance, SpotR, ReceiverR), One)
  /\ RGe(AcosArgument(CentreDistance, ReceiverR, SpotR), I2R(-1))
  /\ RLe(AcosArgument(CentreDistance, ReceiverR, SpotR), One)
  /\ RGe(RootProduct(CentreDistance, SpotR, ReceiverR), Zero)
  /\ IsFinite(rayTrace[1].effectiveArea)
  /\ RGe(rayTrace[1].effectiveArea, Zero)

\* C28: whenever the circular-receiver overlap reaches the two-segment
\* formula, the centre distance d and both radii are > 0, both acos
\* arguments lie in [-1, 1] and the product under the square root is >= 0,
\* so the area returned is a real number >= 0; stated for the zenith angles
\* below 90 degrees, where the tangent is a number
C28_TwoSegmentsWellDefined ==
  ReachesTwoSegments /\ RLt(lightSource.zenithAngle, I2R(90)) =>
    TwoSegmentsWellDefined

\* the same for the lenses with a focal length other than 0
C28_TwoSegmentsWellDefinedWithFocus ==
  ReachesTwoSegments /\ RLt(lightSource.zenithAngle, I2R(90))
  /\ system.lenses[1].focalLength # Zero =>
    TwoSegmentsWellDefined

\* the two-segment formula reached with numbers
C28_TwoSegmentsReached ==
  /\ ReachesTwoSegments
  /\ system.lenses[1].focalLength # Zero
  /\ TwoSegmentsWellDefined

---------------------------------------------------------------------------
(* The light intensity as a factor of the powers *)

\* the factors the intensity is multiplied by: powers of two, which scale a
\* rounded product as they scale the exact one
IntensityFactors == { <<1, 4>>, <<1, 2>>, I2R(2), I2R(4) }

\* calculatePower on the system under the light source with k times its
\* intensity
PowerAtIntensityTimes(k) ==
  calculatePower(system, [lightSource EXCEPT !.intensity = RMul(k, @)])

\* the result scaled has k times the powers of the result and its other
\* fields
ScaledBy(k, scaled, result) ==
  /\ scaled.inputPower = RMul(k, result.inputPower)
  /\ scaled.outputPower = RMul(k, result.outputPower)
  /\ scaled.systemEfficiency = result.systemEfficiency
  /\ scaled.spotDiameter = result.spotDiameter
  /\ scaled.effectiveArea = result.effectiveArea
  /\ scaled.concentrationRatio = result.concentrationRatio
  /\ scaled.isValid = result.isValid

\* C29: for a fixed system and zenith angle, multiplying the light intensity
\* by a factor k > 0 multiplies the inputPower and the outputPower of
\* calculatePower by k and leaves systemEfficiency, spotDiameter,
\* effectiveArea, concentrationRatio and isValid unchanged; the efficiency of
\* every result of sweepAngle is that of the sweep at k times the intensity
C29_IntensityIsAFactor ==
  /\ call = "calculatePower" =>
       \A k \in IntensityFactors : ScaledBy(k, PowerAtIntensityTimes(k), power[1])
  /\ call = "sweepAngle" =>
       \A k \in IntensityFactors :
         \A r \in Range(sweep.results) :
           r.efficiency
             = SweepBody(system, RMul(k, sweep.intensity), r.angle).efficiency

\* calculatePower under oblique light with an efficiency strictly between 0
\* and 1 and an input power below 1
C29_PowerScaled ==
  /\ call = "calculatePower"
  /\ lightSource.zenithAngle = I2R(45)
  /\ RGt(power[1].systemEfficiency, Zero)
  /\ RLt(power[1].systemEfficiency, One)
  /\ RGt(power[1].outputPower, Zero)
  /\ PowerAtIntensityTimes(I2R(2)).outputPower = RMul(I2R(2), power[1].outputPower)

\* a sweep returned with results of efficiency above 0
C29_SweepWithEfficiency ==
  /\ call = "sweepAngle"
  /\ sweep.pc = "done"
  /\ Len(sweep.results) >= 3
  /\ \A r \in Range(sweep.results) : RGt(r.efficiency, Zero)

---------------------------------------------------------------------------
(* Properties of the useOpticalSystem hook *)

\* C30: in every state of the useOpticalSystem hook reachable from its
\* initial state (stored or default) through updateLens, updatePV,
\* setIntensity, setZenithAngle, reset and importFromCsv, the lens list
\* holds exactly one lens, and validateOpticalSystem does not reject the
\* system for its lens count
C30_OneLensAlways ==
  /\ Len(system.lenses) = 1
  /\ \A message \in Range(validateOpticalSystem(system)) :
       message # "System must have exactly 1 lens"

\* the initial state has one lens, and no callback other than importFromCsv
\* leads from a state with one lens to a state with another number of
\* lenses
C30_OneLensButForImport ==
  /\ InitHook => Len(system.lenses) = 1
  /\ [][call' # "importFromCsv" /\ Len(system.lenses) = 1
         => Len(system'.lenses) = 1]_vars

====
